---- MODULE Spec2Model ----
(***************************************************************************)
(* Risk-scoring pipeline of the asset-security backend:                    *)
(*   classification.py      classify_asset_fuzzy, classify_asset_ensemble  *)
(*   compute_risk_level.py  compute_risk_level                             *)
(*   fuzzy_direct_classifier.py  FuzzyDirectRiskClassifier.predict         *)
(*   risk_analysis.py       calculate_risk_level,                          *)
(*                          calculate_risk_mitigation_priority             *)
(*   model_comparison.py    compare_all_approaches, batch_comparison,      *)
(*                          ModelComparisonFramework                       *)
(*   risk_identification.py the ISO 27005, NIST SP 800-30, OCTAVE and       *)
(*                          integrated risk identifiers                    *)
(*   views.py               the asset endpoints                            *)
(*                                                                         *)
(* Numbers.  Every quantity of the 0-1 scale is an integer number of       *)
(* thousandths (One = 1000 stands for 1.0), and the arithmetic is exact    *)
(* rational arithmetic on scaled integers; the binary rounding of Python   *)
(* floats is not modelled.  round(x, 3) is rounding to the nearest         *)
(* thousandth, ties to even.                                               *)
(* Where the risk identifiers round a product that can sit exactly on a   *)
(* tie, both neighbouring thousandths are outcomes (RoundTies).            *)
(*                                                                         *)
(* Libraries.  scikit-fuzzy's inference: memberships, rule activation      *)
(* (AND = min, OR = max) and aggregation are computed, and compute()       *)
(* raises when no output term fired.  For compute_risk_level the centroid  *)
(* is the exact centre of gravity of the aggregated surface; for the       *)
(* classifier and the direct classifier it is a choice among the grid      *)
(* points inside the support of the output terms that fired.  The labels   *)
(* predicted by the scikit-learn models (SVM, decision tree) are a choice  *)
(* among the four categories; a pickled member of the ensemble predicts    *)
(* one of the classes of its own label encoder (PredictedLabels).          *)
(***************************************************************************)
EXTENDS Integers, Sequences, FiniteSets, TLC

VARIABLES call, result, asset, response

vars == <<call, result, asset, response>>

(***************************************************************************)
(* Bounds of the model                                                     *)
(***************************************************************************)
\* longest list passed to batch_comparison
MaxBatch == 2
\* spacing of the sampled risk_index arguments of the analyzer, in thousandths
RiskStep == 5
\* spacing of the sampled input values, in thousandths
GridStep == 500
\* the sampled inputs are k * GridStep for k in -1 .. MaxK (one value below 0,
\* at least one above One)
MaxK == 3
\* spacing of the sampled crisp outputs of the fuzzy engine, in thousandths
FuzzyStep == 250

(***************************************************************************)
(* Scales                                                                  *)
(***************************************************************************)
\* 1.0 in thousandths
One == 1000
\* denominator of a membership degree: every slope of the triangles used
\* (1/0.3 and 1/0.4 per unit) is a whole number of 1/1200 per thousandth
MuOne == 1200

None == <<>>
Some(v) == <<v>>
Val(x) == x[1]

Min2(a, b) == IF a <= b THEN a ELSE b
Max2(a, b) == IF a >= b THEN a ELSE b
Min3(a, b, c) == Min2(a, Min2(b, c))
Max3(a, b, c) == Max2(a, Max2(b, c))
Min4(a, b, c, d) == Min2(Min2(a, b), Min2(c, d))

\* min(max(x, 0), 1.0)
Clamp01(x) == Min2(Max2(x, 0), One)

\* nearest integer to n / d for n >= 0, d > 0, ties to even
RoundDiv(n, d) ==
    LET q == n \div d
        r == n % d
    IN  IF 2 * r < d THEN q
        ELSE IF 2 * r > d THEN q + 1
        ELSE IF q % 2 = 0 THEN q ELSE q + 1

\* round(n / d, 3) of a float: the nearest thousandth, and either neighbour
\* when n / d lies exactly half way (the binary value of the float decides)
RoundTies(n, d) ==
    LET q == n \div d
        r == n % d
    IN  IF 2 * r < d THEN {q} ELSE IF 2 * r > d THEN {q + 1} ELSE {q, q + 1}

InputVals == {k * GridStep : k \in -1 .. MaxK}
FuzzyGrid == {k * FuzzyStep : k \in 0 .. (One \div FuzzyStep)}

(***************************************************************************)
(* scikit-fuzzy: triangular membership and defuzzification                 *)
(***************************************************************************)
\* fuzz.trimf(universe, [a, b, c]) read at x, in units of 1/MuOne
trimf(x, a, b, c) ==
    IF x = b THEN MuOne
    ELSE IF a < x /\ x < b THEN (MuOne * (x - a)) \div (b - a)
    ELSE IF b < x /\ x < c THEN (MuOne * (c - x)) \div (c - b)
    ELSE 0

\* The crisp outputs compute() can produce: none (it raises) when no output
\* term has a positive activation, else a point of the span of the supports
\* of the terms that fired.  act and support are functions over the same terms.
Defuzz(act, support) ==
    LET fired == {t \in DOMAIN act : act[t] > 0}
    IN  IF fired = {} THEN {}
        ELSE {f \in FuzzyGrid :
                /\ \E t \in fired : support[t][1] <= f
                /\ \E t \in fired : f <= support[t][2]}

(***************************************************************************)
(* classification.py: classify_asset_fuzzy                                 *)
(* Arguments, in the order of the signature:                               *)
(*   <<business_criticality, data_sensitivity, operational_dependency,     *)
(*     regulatory_impact, confidentiality, integrity, availability>>       *)
(***************************************************************************)
\* a validation that turns the boundary values away
AllInRange_Strict(args) == \A n \in DOMAIN args : 0 < args[n] /\ args[n] < One

\* the validation loop: every value satisfies 0 <= val <= 1
AllInRange(args) == \A n \in DOMAIN args : 0 <= args[n] /\ args[n] <= One

\* antecedent terms of the classifier
ClsLow(x) == trimf(x, 0, 0, 400)
ClsMedium(x) == trimf(x, 200, 500, 800)
ClsHigh(x) == trimf(x, 600, 1000, 1000)

\* supports of the consequent terms risk_class['low'|'moderate'|'high']
ClsSupport == [low |-> <<0, 330>>, moderate |-> <<250, 750>>, high |-> <<660, 1000>>]

\* the 17 rules, aggregated per consequent term (max over the rules of a term)
ClsActivation(args) ==
    LET bc == args[1]  ds == args[2]  od == args[3]  ri == args[4]
        c == args[5]   i == args[6]   a == args[7]
        h1 == Min4(ClsHigh(bc), ClsHigh(c), ClsHigh(i), ClsHigh(a))
        h2 == Min3(ClsHigh(bc), ClsHigh(ds), ClsHigh(od))
        h3 == Min3(ClsHigh(ri), ClsHigh(ds), ClsHigh(c))
        h4 == Min3(ClsHigh(bc), ClsHigh(od), Max2(ClsHigh(c), ClsHigh(i)))
        h5 == Min3(ClsHigh(ds), ClsHigh(ri), Max2(ClsMedium(c), ClsMedium(i)))
        h6 == Min3(ClsHigh(od), ClsHigh(a), ClsMedium(bc))
        m1 == Min3(ClsMedium(bc), ClsMedium(ds), ClsMedium(od))
        m2 == Min2(ClsHigh(bc), Max3(ClsLow(c), ClsLow(i), ClsLow(a)))
        m3 == Min3(ClsHigh(ds), ClsLow(ri), ClsLow(bc))
        m4 == Min2(ClsMedium(od), Max3(ClsMedium(c), ClsMedium(i), ClsMedium(a)))
        m5 == Min2(ClsMedium(ri), ClsMedium(ds))
        l1 == Min3(ClsLow(bc), ClsLow(ds), ClsLow(od))
        l2 == Min3(ClsLow(bc), ClsLow(ri), Max2(ClsLow(c), ClsLow(i)))
        l3 == Min3(ClsLow(ds), ClsLow(od), ClsLow(a))
        e1 == Min4(ClsMedium(bc), ClsLow(ds), ClsLow(od), ClsLow(ri))
        e2 == Min4(ClsHigh(c), ClsLow(i), ClsLow(a), ClsLow(bc))
        e3 == Min3(ClsHigh(ri), ClsLow(bc), ClsLow(ds))
    IN  [low      |-> Max2(Max3(l1, l2, l3), e1),
         moderate |-> Max2(Max3(m1, m2, m3), Max2(Max3(m4, m5, e2), e3)),
         high     |-> Max2(Max3(h1, h2, h3), Max3(h4, h5, h6))]

\* the 0.34 given to integrity instead of availability
TechnicalSum_Swapped(c, i, a) == 33 * c + 34 * i + 33 * a

\* technical_weight's inner sum, in units of 1/100 of a thousandth
TechnicalSum(c, i, a) == 33 * c + 33 * i + 34 * a

\* fuzzy_score * 0.7 + business_weight + technical_weight + data_weight,
\* in units of 1e-7 (FinalOne stands for 1.0)
FinalOne == 10000 * One
RawScore(f, args) ==
    7000 * f
    + 6 * (400 * args[1] + 300 * args[3] + 300 * args[4])
    + 25 * TechnicalSum(args[5], args[6], args[7])
    + 1500 * args[2]

\* the clamp left out
FinalScore_NoClamp(f, args) == RawScore(f, args)

\* final_score = min(max(raw, 0.0), 1.0)
FinalScore(f, args) == Min2(Max2(RawScore(f, args), 0), FinalOne)

\* the chain with strict comparisons
Category_Strict(final) ==
    IF final < 2500 * One THEN "Public"
    ELSE IF final < 5000 * One THEN "Official"
    ELSE IF final < 7500 * One THEN "Confidential"
    ELSE "Restricted"

\* the chain with every limit 0.01 higher
Category_Late(final) ==
    IF final <= 2600 * One THEN "Public"
    ELSE IF final <= 5100 * One THEN "Official"
    ELSE IF final <= 7600 * One THEN "Confidential"
    ELSE "Restricted"

\* the if/elif chain on final_score
Category(final) ==
    IF final <= 2500 * One THEN "Public"
    ELSE IF final <= 5000 * One THEN "Official"
    ELSE IF final <= 7500 * One THEN "Confidential"
    ELSE "Restricted"

RiskLevelOf(category) ==
    CASE category = "Public" -> "Low"
      [] category = "Official" -> "Low-Medium"
      [] category = "Confidential" -> "Medium-High"
      [] OTHER -> "High"

\* the dict returned for crisp fuzzy output f
ClassificationResult(f, args) ==
    LET final == FinalScore(f, args)
    IN  [status |-> "ok",
         final_score |-> final,
         classification_score |-> RoundDiv(final, 10000),
         classification_category |-> Category(final),
         risk_level |-> RiskLevelOf(Category(final)),
         fuzzy_output |-> f,
         methodology |-> "fuzzy"]

\* raise ValueError("Fuzzy logic classification failed: ...") of the except
\* clause; cause tells the exception it wraps
Raised(error, cause) == [status |-> "raise", error |-> error, cause |-> cause]

\* every outcome of classify_asset_fuzzy(*args)
classify_asset_fuzzy(args) ==
    IF ~AllInRange(args) THEN {Raised("ValueError", "range")}
    ELSE LET outs == Defuzz(ClsActivation(args), ClsSupport)
         IN  IF outs = {} THEN {Raised("ValueError", "defuzz")}
             ELSE {ClassificationResult(f, args) : f \in outs}

(***************************************************************************)
(* compute_risk_level.py and fuzzy_direct_classifier.py                    *)
(***************************************************************************)
\* the term 'low' with the foot of the classifier's 'low' term
RiskLow_Wide(x) == trimf(x, 0, 0, 400)

\* antecedent terms shared by compute_risk_level and the direct classifier
RiskLow(x) == trimf(x, 0, 0, 300)
RiskMedium(x) == trimf(x, 200, 500, 800)
RiskHigh(x) == trimf(x, 700, 1000, 1000)

\* supports of the consequent terms 'low', 'medium', 'high' of both systems
RiskSupport == [low |-> <<0, 300>>, medium |-> <<200, 800>>, high |-> <<700, 1000>>]

\* The aggregated surface of risk_index at x: every consequent term cut at
\* its activation, and the highest of the three.
Aggregate(act, x) ==
    Max3(Min2(act.low, RiskLow(x)), Min2(act.medium, RiskMedium(x)),
         Min2(act.high, RiskHigh(x)))

\* The points of the universe where the aggregated surface can bend: the
\* corners and crossings of the three triangles and the points where a
\* triangle meets the activation of a term (the triangles have slope
\* MuOne / 300 = 4, and every activation is a multiple of 4).
Breakpoints(act) ==
    ({0, 200, 250, 300, 500, 700, 750, 800, One}
       \cup UNION {{300 - v \div 4, 200 + v \div 4, 800 - v \div 4, 700 + v \div 4} :
                   v \in {act.low, act.medium, act.high}})
    \cap (0 .. One)

\* <<2 * area, 6 * moment>> of the aggregated surface from x to 1.0, summed
\* over the straight pieces between breakpoints (heights in units of 4 / MuOne)
RECURSIVE CentroidSums(_, _, _)
CentroidSums(act, points, x) ==
    IF x >= One THEN <<0, 0>>
    ELSE LET x2 == CHOOSE b \in points : b > x /\ \A p \in points : p > x => b <= p
             y1 == Aggregate(act, x) \div 4
             y2 == Aggregate(act, x2) \div 4
             rest == CentroidSums(act, points, x2)
         IN  <<rest[1] + (x2 - x) * (y1 + y2),
               rest[2] + (x2 - x) * (x * (2 * y1 + y2) + x2 * (y1 + 2 * y2))>>

\* round(risk_sim.output['risk_index'], 3) after compute(): the centre of
\* gravity of the aggregated surface; no value (compute() raises) when no
\* consequent term has a positive activation.
Centroid(act) ==
    IF act.low = 0 /\ act.medium = 0 /\ act.high = 0 THEN {}
    ELSE LET sums == CentroidSums(act, Breakpoints(act), 0)
         IN  RoundTies(sums[2], 3 * sums[1])

\* a float returned by a function, with the branch that produced it
Returned(v, path) == [status |-> "ok", value |-> v, path |-> path]

\* the 18 rules of compute_risk_level on the clamped inputs
CrlActivation(c, i, a, k) ==
    LET h == Max2(Max2(Min3(RiskHigh(c), RiskHigh(i), RiskHigh(a)),
                       Min3(RiskHigh(c), RiskHigh(i), RiskHigh(k))),
                  Max2(Min3(RiskHigh(i), RiskHigh(a), RiskHigh(k)),
                       Min3(RiskHigh(c), RiskHigh(a), RiskHigh(k))))
        mh == Max2(Max3(Min3(RiskHigh(c), RiskMedium(i), RiskMedium(a)),
                        Min3(RiskMedium(c), RiskHigh(i), RiskMedium(a)),
                        Min3(RiskMedium(c), RiskMedium(i), RiskHigh(a))),
                   Max3(Min2(RiskHigh(k), RiskMedium(c)),
                        Min2(RiskHigh(k), RiskMedium(i)),
                        Min2(RiskHigh(k), RiskMedium(a))))
        mm == Max2(Max2(Min3(RiskMedium(c), RiskMedium(i), RiskMedium(a)),
                        Min3(RiskMedium(k), RiskMedium(c), RiskMedium(i))),
                   Max2(Min3(RiskMedium(k), RiskMedium(c), RiskMedium(a)),
                        Min3(RiskMedium(k), RiskMedium(i), RiskMedium(a))))
        l == Max2(Max2(Min3(RiskLow(c), RiskLow(i), RiskLow(a)),
                       Min2(RiskLow(k), RiskLow(c))),
                  Max2(Min2(RiskLow(k), RiskLow(i)),
                       Min2(RiskLow(k), RiskLow(a))))
    IN  [low |-> l, medium |-> Max2(mh, mm), high |-> h]

\* the except branch with the weights of the direct classifier's fallback
\* (0.3 on the classification value, 0.2 on availability)
CrlFallback_Weighted(c, i, a, k) ==
    RoundDiv(25 * Clamp01(c) + 25 * Clamp01(i) + 20 * Clamp01(a) + 30 * Clamp01(k), 100)

\* the except branch without the clamping of its values (the sum is shifted
\* by 1000 so that a negative average is rounded too)
CrlFallback_NoClamp(c, i, a, k) ==
    RoundDiv(25 * c + 25 * i + 25 * a + 25 * k + 100 * One, 100) - One

\* the except branch of compute_risk_level: equal weights on the clamped values
CrlFallback(c, i, a, k) ==
    RoundDiv(25 * Clamp01(c) + 25 * Clamp01(i) + 25 * Clamp01(a) + 25 * Clamp01(k), 100)

\* every outcome of compute_risk_level(confidentiality, integrity,
\* availability, classification_value)
compute_risk_level(c, i, a, k) ==
    LET outs == Centroid(CrlActivation(Clamp01(c), Clamp01(i), Clamp01(a), Clamp01(k)))
    IN  IF outs = {} THEN {Returned(CrlFallback(c, i, a, k), "fallback")}
        ELSE {Returned(f, "fuzzy") : f \in outs}

\* the 15 rules of FuzzyDirectRiskClassifier on the clamped inputs
FdcActivation(v, c, i, a) ==
    LET h == Max2(Max2(Min3(RiskHigh(v), RiskHigh(c), RiskHigh(i)),
                       Min3(RiskHigh(v), RiskHigh(c), RiskHigh(a))),
                  Max2(Min3(RiskHigh(v), RiskHigh(i), RiskHigh(a)),
                       Min3(RiskHigh(c), RiskHigh(i), RiskHigh(a))))
        m1 == Max2(Max2(Min3(RiskHigh(v), RiskMedium(c), RiskMedium(i)),
                        Min3(RiskMedium(v), RiskHigh(c), RiskHigh(i))),
                   Max2(Min3(RiskMedium(v), RiskHigh(c), RiskHigh(a)),
                        Min3(RiskMedium(v), RiskHigh(i), RiskHigh(a))))
        m2 == Max3(Min3(RiskMedium(v), RiskMedium(c), RiskMedium(i)),
                   Min3(RiskMedium(v), RiskMedium(c), RiskMedium(a)),
                   Min3(RiskLow(v), RiskHigh(c), RiskMedium(i)))
        l == Max2(Max2(Min3(RiskLow(v), RiskLow(c), RiskLow(i)),
                       Min3(RiskLow(v), RiskLow(c), RiskLow(a))),
                  Max2(Min3(RiskLow(v), RiskLow(i), RiskLow(a)),
                       Min3(RiskLow(c), RiskLow(i), RiskLow(a))))
    IN  [low |-> l, medium |-> Max2(m1, m2), high |-> h]

\* the fallback of compute_risk_level copied into the direct classifier
_fallback_prediction_Equal(v, c, i, a) ==
    RoundDiv(25 * Clamp01(v) + 25 * Clamp01(c) + 25 * Clamp01(i) + 25 * Clamp01(a), 100)

\* FuzzyDirectRiskClassifier._fallback_prediction
_fallback_prediction(v, c, i, a) ==
    RoundDiv(30 * Clamp01(v) + 25 * Clamp01(c) + 25 * Clamp01(i) + 20 * Clamp01(a), 100)

\* every outcome of FuzzyDirectRiskClassifier.predict(asset_value,
\* confidentiality, integrity, availability)
predict(v, c, i, a) ==
    LET outs == Defuzz(FdcActivation(Clamp01(v), Clamp01(c), Clamp01(i), Clamp01(a)),
                       RiskSupport)
    IN  IF outs = {} THEN {Returned(_fallback_prediction(v, c, i, a), "fallback")}
        ELSE {Returned(f, "fuzzy") : f \in outs}

(***************************************************************************)
(* Specification of the three fuzzy call sites: one call, drawn from the   *)
(* sampled inputs, and its outcome.                                        *)
(***************************************************************************)
Pending == [status |-> "pending"]
NoCall == [op |-> "none"]

Tuples(n) == [1 .. n -> InputVals]

\* the arguments (confidentiality, integrity, availability,
\* classification_value) of end-to-end scenario 2
Scenario2 == <<300, 400, 300, 200>>

\* arguments of classify_asset_fuzzy for which only the rule on
\* regulatory_impact['medium'] and data_sensitivity['medium'] fires, and the
\* weighted factors add 0.150165 to the fuzzy part
JustAboveHalf == <<0, 400, 0, 500, 2, 0, 0>>

InitFuzzy ==
    /\ \/ \E x \in Tuples(7) \cup {JustAboveHalf} : call = [op |-> "classify_asset_fuzzy", args |-> x]
       \/ \E o \in {"compute_risk_level", "predict"}, x \in Tuples(4) \cup {Scenario2} :
             call = [op |-> o, args |-> x]
    /\ result = Pending
    /\ asset = None
    /\ response = None

ClassifyAssetFuzzy ==
    /\ call.op = "classify_asset_fuzzy"
    /\ result = Pending
    /\ result' \in classify_asset_fuzzy(call.args)
    /\ UNCHANGED <<call, asset, response>>

ComputeRiskLevel ==
    /\ call.op = "compute_risk_level"
    /\ result = Pending
    /\ result' \in compute_risk_level(call.args[1], call.args[2], call.args[3], call.args[4])
    /\ UNCHANGED <<call, asset, response>>

Predict ==
    /\ call.op = "predict"
    /\ result = Pending
    /\ result' \in predict(call.args[1], call.args[2], call.args[3], call.args[4])
    /\ UNCHANGED <<call, asset, response>>

NextFuzzy == ClassifyAssetFuzzy \/ ComputeRiskLevel \/ Predict

SpecFuzzy == InitFuzzy /\ [][NextFuzzy]_vars

\* the call has finished
Done(op) == call.op = op /\ result.status # "pending"
\* some argument of the call is below 0 or above 1
SomeOutOfRange == \E n \in DOMAIN call.args : call.args[n] < 0 \/ call.args[n] > One

(***************************************************************************)
(* C1: classify_asset_fuzzy raises ValueError from its validation when any *)
(* of the seven arguments is below 0 or above 1 and returns no result      *)
(* (nothing is clamped); when every argument is in [0,1], 0 and 1          *)
(* included, the validation does not reject the call.                      *)
(***************************************************************************)
C1_RangeValidation ==
    Done("classify_asset_fuzzy") =>
        /\ SomeOutOfRange => result = Raised("ValueError", "range")
        /\ ~SomeOutOfRange => result # Raised("ValueError", "range")

\* an argument below 0 made the call raise
C1_Witness ==
    /\ Done("classify_asset_fuzzy")
    /\ \E n \in 1 .. 7 : call.args[n] < 0
    /\ result.status = "raise"

(***************************************************************************)
(* C2: the category partitions the final score s: Public iff s <= 0.25,    *)
(* Official iff 0.25 < s <= 0.50, Confidential iff 0.50 < s <= 0.75,       *)
(* Restricted iff s > 0.75.                                                *)
(***************************************************************************)
C2_CategoryPartition ==
    (Done("classify_asset_fuzzy") /\ result.status = "ok") =>
        LET s == result.final_score
            cat == result.classification_category
        IN  /\ cat = "Public" <=> 4 * s <= FinalOne
            /\ cat = "Official" <=> (FinalOne < 4 * s /\ 2 * s <= FinalOne)
            /\ cat = "Confidential" <=> (FinalOne < 2 * s /\ 4 * s <= 3 * FinalOne)
            /\ cat = "Restricted" <=> 4 * s > 3 * FinalOne

\* a final score exactly on the threshold 0.25, classified Public
C2_Witness ==
    /\ Done("classify_asset_fuzzy")
    /\ result.status = "ok"
    /\ 4 * result.final_score = FinalOne
    /\ result.classification_category = "Public"

(***************************************************************************)
(* C3: whenever classify_asset_fuzzy returns, classification_score is in   *)
(* [0,1] and classification_category is one of the four labels.            *)
(***************************************************************************)
C3_RangeClosure ==
    (Done("classify_asset_fuzzy") /\ result.status = "ok") =>
        /\ 0 <= result.classification_score
        /\ result.classification_score <= One
        /\ result.classification_category
             \in {"Public", "Official", "Confidential", "Restricted"}

\* a returned result whose unclamped sum exceeded 1.0
C3_Witness ==
    /\ Done("classify_asset_fuzzy")
    /\ result.status = "ok"
    /\ 7000 * result.fuzzy_output + 2400 * call.args[1] + 1500 * call.args[2] > FinalOne
    /\ result.classification_score = One

\* the call is classify_asset_fuzzy and it returned a result
ClassifierReturned == Done("classify_asset_fuzzy") /\ result.status = "ok"

(***************************************************************************)
(* C4 as claimed: final = clamp(0.7 fuzzy + 0.6 (0.4 bc + 0.3 od + 0.3 ri) *)
(* + 0.25 mean(c, i, a) + 0.15 ds, 0, 1).  Both sides times 3, in 1e-7.    *)
(***************************************************************************)
C4_MeanOfCia ==
    ClassifierReturned =>
        LET x == call.args
            sum3 == 3 * (7000 * result.fuzzy_output
                         + 6 * (400 * x[1] + 300 * x[3] + 300 * x[4])
                         + 1500 * x[2])
                    + 2500 * (x[5] + x[6] + x[7])
        IN  3 * result.final_score = Min2(Max2(sum3, 0), 3 * FinalOne)

(***************************************************************************)
(* C4 amended: final = clamp(0.7 fuzzy + 0.6 (0.4 bc + 0.3 od + 0.3 ri)    *)
(* + 0.25 (0.33 c + 0.33 i + 0.34 a) + 0.15 ds, 0, 1).                     *)
(***************************************************************************)
C4_WeightedCia ==
    ClassifierReturned =>
        LET x == call.args
            sum == 7000 * result.fuzzy_output
                   + 2400 * x[1] + 1800 * x[3] + 1800 * x[4]
                   + 825 * x[5] + 825 * x[6] + 850 * x[7]
                   + 1500 * x[2]
        IN  result.final_score = Min2(Max2(sum, 0), FinalOne)

\* an unclamped result where availability differs from the mean of the other two
C4_Witness ==
    /\ ClassifierReturned
    /\ call.args[5] + call.args[6] # 2 * call.args[7]
    /\ result.final_score < FinalOne

\* no rule of the call site fires on the (in-range) arguments of the call
NoRuleFires ==
    LET x == call.args
        act == CASE call.op = "classify_asset_fuzzy" -> ClsActivation(x)
                 [] call.op = "compute_risk_level" -> CrlActivation(x[1], x[2], x[3], x[4])
                 [] call.op = "predict" -> FdcActivation(x[1], x[2], x[3], x[4])
    IN  \A t \in DOMAIN act : act[t] = 0

FuzzyCallDone == result.status # "pending"

Num(v) == [kind |-> "num", v |-> v]
NoneArg == [kind |-> "none"]
TextArg == [kind |-> "text"]

\* float(x): the exception it raises, None when it converts
FloatError(x) ==
    CASE x.kind = "none" -> Some("TypeError")
      [] x.kind = "text" -> Some("ValueError")
      [] OTHER -> None

\* math.pow(r / 1000, 1.3) in units of 1e-7, for r = 0 .. 1000 at index r + 1
Pow13 ==
 <<
    0, 1259, 3100, 5251, 7633, 10201, 12930, 15799,
    18794, 21904, 25119, 28432, 31837, 35329, 38902, 42552,
    46276, 50071, 53933, 57860, 61850, 65900, 70008, 74173,
    78393, 82665, 86989, 91364, 95787, 100258, 104775, 109338,
    113945, 118595, 123289, 128023, 132799, 137614, 142468, 147361,
    152292, 157260, 162265, 167305, 172381, 177491, 182635, 187814,
    193025, 198269, 203545, 208853, 214193, 219563, 224963, 230394,
    235855, 241344, 246863, 252411, 257986, 263590, 269221, 274880,
    280565, 286278, 292016, 297781, 303572, 309388, 315230, 321097,
    326988, 332905, 338845, 344810, 350798, 356811, 362847, 368906,
    374988, 381093, 387220, 393370, 399543, 405737, 411953, 418191,
    424451, 430732, 437034, 443357, 449701, 456066, 462452, 468857,
    475283, 481730, 488196, 494682, 501187, 507712, 514257, 520821,
    527404, 534006, 540627, 547267, 553925, 560602, 567297, 574011,
    580742, 587492, 594260, 601045, 607849, 614669, 621508, 628364,
    635237, 642127, 649034, 655959, 662900, 669858, 676833, 683825,
    690833, 697857, 704898, 711955, 719029, 726118, 733223, 740345,
    747482, 754635, 761803, 768987, 776187, 783402, 790633, 797879,
    805140, 812416, 819707, 827013, 834335, 841671, 849021, 856387,
    863767, 871162, 878571, 885995, 893433, 900885, 908352, 915833,
    923328, 930837, 938360, 945897, 953448, 961013, 968591, 976183,
    983789, 991409, 999042, 1006688, 1014348, 1022021, 1029708, 1037408,
    1045121, 1052847, 1060586, 1068339, 1076104, 1083882, 1091674, 1099478,
    1107295, 1115124, 1122967, 1130822, 1138689, 1146569, 1154462, 1162367,
    1170285, 1178215, 1186157, 1194112, 1202079, 1210058, 1218049, 1226052,
    1234068, 1242095, 1250135, 1258186, 1266249, 1274324, 1282411, 1290510,
    1298621, 1306743, 1314877, 1323022, 1331179, 1339348, 1347528, 1355720,
    1363923, 1372138, 1380363, 1388601, 1396849, 1405109, 1413380, 1421662,
    1429955, 1438260, 1446575, 1454902, 1463239, 1471588, 1479947, 1488317,
    1496699, 1505091, 1513494, 1521907, 1530332, 1538767, 1547213, 1555669,
    1564136, 1572614, 1581102, 1589601, 1598110, 1606630, 1615160, 1623701,
    1632252, 1640813, 1649385, 1657967, 1666559, 1675161, 1683774, 1692397,
    1701030, 1709673, 1718326, 1726989, 1735663, 1744346, 1753039, 1761743,
    1770456, 1779179, 1787912, 1796655, 1805407, 1814170, 1822942, 1831724,
    1840516, 1849317, 1858128, 1866949, 1875780, 1884620, 1893469, 1902328,
    1911197, 1920075, 1928963, 1937860, 1946766, 1955682, 1964608, 1973542,
    1982486, 1991440, 2000403, 2009374, 2018356, 2027346, 2036346, 2045355,
    2054373, 2063400, 2072436, 2081481, 2090536, 2099599, 2108672, 2117754,
    2126844, 2135944, 2145052, 2154170, 2163296, 2172431, 2181575, 2190728,
    2199890, 2209061, 2218240, 2227428, 2236625, 2245831, 2255045, 2264268,
    2273500, 2282740, 2291990, 2301247, 2310514, 2319788, 2329072, 2338364,
    2347664, 2356973, 2366291, 2375617, 2384951, 2394294, 2403645, 2413005,
    2422373, 2431750, 2441135, 2450528, 2459929, 2469339, 2478757, 2488183,
    2497618, 2507061, 2516512, 2525971, 2535438, 2544914, 2554397, 2563889,
    2573389, 2582897, 2592413, 2601937, 2611470, 2621010, 2630558, 2640115,
    2649679, 2659251, 2668831, 2678420, 2688016, 2697620, 2707232, 2716851,
    2726479, 2736115, 2745758, 2755409, 2765068, 2774735, 2784409, 2794092,
    2803782, 2813480, 2823185, 2832898, 2842619, 2852348, 2862084, 2871828,
    2881579, 2891339, 2901105, 2910880, 2920662, 2930451, 2940248, 2950053,
    2959865, 2969685, 2979512, 2989346, 2999188, 3009038, 3018895, 3028759,
    3038631, 3048510, 3058397, 3068291, 3078192, 3088101, 3098017, 3107941,
    3117871, 3127810, 3137755, 3147707, 3157667, 3167635, 3177609, 3187591,
    3197579, 3207575, 3217579, 3227589, 3237607, 3247631, 3257663, 3267702,
    3277748, 3287802, 3297862, 3307929, 3318004, 3328086, 3338174, 3348270,
    3358373, 3368482, 3378599, 3388723, 3398853, 3408991, 3419136, 3429287,
    3439446, 3449611, 3459784, 3469963, 3480149, 3490342, 3500542, 3510749,
    3520963, 3531183, 3541410, 3551645, 3561886, 3572133, 3582388, 3592649,
    3602917, 3613192, 3623474, 3633762, 3644057, 3654359, 3664667, 3674983,
    3685304, 3695633, 3705968, 3716310, 3726659, 3737014, 3747376, 3757744,
    3768119, 3778500, 3788889, 3799283, 3809685, 3820093, 3830507, 3840928,
    3851356, 3861790, 3872230, 3882677, 3893131, 3903591, 3914057, 3924530,
    3935009, 3945495, 3955987, 3966486, 3976991, 3987503, 3998021, 4008545,
    4019076, 4029613, 4040156, 4050706, 4061262, 4071824, 4082393, 4092968,
    4103550, 4114137, 4124731, 4135332, 4145938, 4156551, 4167170, 4177795,
    4188427, 4199065, 4209709, 4220359, 4231015, 4241678, 4252347, 4263022,
    4273703, 4284390, 4295084, 4305784, 4316489, 4327201, 4337919, 4348643,
    4359374, 4370110, 4380852, 4391601, 4402356, 4413116, 4423883, 4434656,
    4445435, 4456219, 4467010, 4477807, 4488610, 4499419, 4510234, 4521055,
    4531882, 4542715, 4553553, 4564398, 4575249, 4586106, 4596968, 4607837,
    4618711, 4629591, 4640478, 4651370, 4662268, 4673172, 4684082, 4694997,
    4705919, 4716846, 4727779, 4738719, 4749663, 4760614, 4771571, 4782533,
    4793501, 4804475, 4815455, 4826440, 4837432, 4848429, 4859431, 4870440,
    4881454, 4892474, 4903500, 4914532, 4925569, 4936612, 4947660, 4958715,
    4969775, 4980840, 4991912, 5002989, 5014072, 5025160, 5036254, 5047354,
    5058459, 5069570, 5080686, 5091808, 5102936, 5114070, 5125209, 5136353,
    5147503, 5158659, 5169820, 5180987, 5192159, 5203337, 5214521, 5225710,
    5236904, 5248105, 5259310, 5270521, 5281738, 5292960, 5304188, 5315421,
    5326659, 5337903, 5349153, 5360408, 5371668, 5382934, 5394206, 5405482,
    5416765, 5428052, 5439345, 5450644, 5461948, 5473257, 5484572, 5495892,
    5507217, 5518548, 5529884, 5541226, 5552573, 5563925, 5575283, 5586646,
    5598014, 5609387, 5620766, 5632151, 5643540, 5654935, 5666335, 5677741,
    5689152, 5700568, 5711989, 5723416, 5734848, 5746285, 5757727, 5769175,
    5780628, 5792086, 5803549, 5815018, 5826491, 5837971, 5849455, 5860944,
    5872439, 5883939, 5895444, 5906954, 5918469, 5929990, 5941516, 5953047,
    5964583, 5976124, 5987670, 5999222, 6010778, 6022340, 6033907, 6045479,
    6057056, 6068638, 6080226, 6091818, 6103415, 6115018, 6126626, 6138238,
    6149856, 6161479, 6173107, 6184740, 6196378, 6208021, 6219670, 6231323,
    6242981, 6254644, 6266313, 6277986, 6289664, 6301347, 6313036, 6324729,
    6336427, 6348131, 6359839, 6371552, 6383270, 6394993, 6406722, 6418455,
    6430193, 6441936, 6453684, 6465437, 6477194, 6488957, 6500725, 6512497,
    6524275, 6536057, 6547844, 6559637, 6571434, 6583236, 6595043, 6606854,
    6618671, 6630492, 6642319, 6654150, 6665986, 6677827, 6689673, 6701523,
    6713379, 6725239, 6737104, 6748974, 6760849, 6772729, 6784613, 6796502,
    6808396, 6820295, 6832199, 6844107, 6856020, 6867938, 6879861, 6891788,
    6903720, 6915657, 6927599, 6939546, 6951497, 6963453, 6975414, 6987379,
    6999349, 7011324, 7023304, 7035288, 7047277, 7059271, 7071270, 7083273,
    7095281, 7107293, 7119311, 7131333, 7143359, 7155391, 7167427, 7179467,
    7191512, 7203562, 7215617, 7227676, 7239740, 7251809, 7263882, 7275960,
    7288042, 7300129, 7312221, 7324317, 7336418, 7348524, 7360634, 7372749,
    7384868, 7396992, 7409120, 7421254, 7433391, 7445533, 7457680, 7469832,
    7481988, 7494148, 7506313, 7518483, 7530657, 7542836, 7555019, 7567207,
    7579399, 7591596, 7603797, 7616003, 7628213, 7640428, 7652648, 7664872,
    7677100, 7689333, 7701570, 7713812, 7726059, 7738310, 7750565, 7762825,
    7775089, 7787358, 7799631, 7811909, 7824191, 7836477, 7848769, 7861064,
    7873364, 7885668, 7897977, 7910290, 7922608, 7934930, 7947256, 7959587,
    7971923, 7984262, 7996606, 8008955, 8021308, 8033665, 8046027, 8058393,
    8070763, 8083138, 8095517, 8107901, 8120289, 8132681, 8145078, 8157479,
    8169884, 8182294, 8194708, 8207126, 8219549, 8231976, 8244407, 8256843,
    8269283, 8281728, 8294176, 8306629, 8319087, 8331548, 8344014, 8356484,
    8368959, 8381438, 8393921, 8406408, 8418900, 8431396, 8443896, 8456400,
    8468909, 8481422, 8493939, 8506461, 8518987, 8531517, 8544051, 8556590,
    8569132, 8581679, 8594231, 8606786, 8619346, 8631910, 8644478, 8657050,
    8669627, 8682208, 8694793, 8707382, 8719975, 8732573, 8745175, 8757781,
    8770391, 8783005, 8795624, 8808247, 8820874, 8833505, 8846140, 8858779,
    8871423, 8884071, 8896723, 8909379, 8922039, 8934703, 8947372, 8960044,
    8972721, 8985402, 8998087, 9010776, 9023470, 9036167, 9048869, 9061574,
    9074284, 9086998, 9099716, 9112438, 9125164, 9137894, 9150629, 9163367,
    9176110, 9188856, 9201607, 9214362, 9227121, 9239884, 9252651, 9265422,
    9278197, 9290976, 9303760, 9316547, 9329338, 9342134, 9354933, 9367737,
    9380544, 9393356, 9406171, 9418991, 9431815, 9444642, 9457474, 9470310,
    9483150, 9495993, 9508841, 9521693, 9534549, 9547409, 9560272, 9573140,
    9586012, 9598888, 9611767, 9624651, 9637539, 9650431, 9663326, 9676226,
    9689130, 9702037, 9714949, 9727864, 9740784, 9753707, 9766634, 9779566,
    9792501, 9805440, 9818383, 9831331, 9844282, 9857237, 9870195, 9883158,
    9896125, 9909096, 9922070, 9935049, 9948031, 9961018, 9974008, 9987002,
    10000000
 >>

Giga == 1000000 * One

\* floor(a * b / c) without leaving 32 bits, for b < 2 ^ 31 / c
MulDiv(a, b, c) == (a \div c) * b + ((a % c) * b) \div c

\* the impact without its cap at 1.0
Impact_NoCap(r) == IF r = 0 THEN 0 ELSE Pow13[r + 1] * 105

\* impact = 0 if risk_index == 0 else min(pow(risk_index, 1.3) * 1.05, 1.0)
Impact(r) == IF r = 0 THEN 0 ELSE Min2(Pow13[r + 1] * 105, Giga)

\* likelihood * impact * environmental_factor without the cap at 1.0
RiskLevelValue_NoCap(r) ==
    MulDiv(MulDiv(Impact(r), r, One), 20000 + 3 * r, 20000)

\* min(likelihood * impact * environmental_factor, 1.0), with
\* environmental_factor = 1.0 + 0.15 * risk_index = (20000 + 3 r) / 20000
RiskLevelValue(r) ==
    Min2(MulDiv(MulDiv(Impact(r), r, One), 20000 + 3 * r, 20000), Giga)

\* the if/elif chain on risk_score
AnalysisLevel(score) ==
    IF score <= 250000 * One THEN "Low"
    ELSE IF score <= 500000 * One THEN "Medium"
    ELSE IF score <= 750000 * One THEN "High"
    ELSE "Critical"

\* risk_category as f"{risk_level} Risk" for every level
AnalysisCategory_Plain(level) ==
    IF level = "Critical" THEN "Critical Risk"
    ELSE IF level = "Low" THEN "Low Risk"
    ELSE IF level = "Medium" THEN "Medium Risk"
    ELSE "High Risk"

\* risk_category as views.py expects it
AnalysisCategory(level) ==
    IF level = "Critical" THEN "Very High Risk"
    ELSE IF level = "Low" THEN "Low Risk"
    ELSE IF level = "Medium" THEN "Medium Risk"
    ELSE "High Risk"

\* the dict returned by the try block for the clamped risk_index r
Analysis(r) ==
    LET score == RiskLevelValue(r)
    IN  [status |-> "ok",
         calculated_risk_level |-> RoundDiv(score, 1000000),
         harm_value |-> RoundDiv(Impact(r), 1000000),
         impact |-> RoundDiv(Impact(r), 1000000),
         environmental_factor |-> RoundDiv(20000 + 3 * r, 20),
         risk_category |-> AnalysisCategory(AnalysisLevel(score)),
         risk_level |-> AnalysisLevel(score),
         priority |-> AnalysisLevel(score),
         risk_score |-> RoundDiv(score, 1000000),
         risk_index |-> r,
         methodology |-> "Mathematical Risk Analysis (ISO 27005)"]

\* the dict built by the except block; building it evaluates
\* float(risk_index) again, risk_index being the parameter
AnalysisHandler(x) ==
    IF FloatError(x) # None THEN Raised(Val(FloatError(x)), "handler")
    ELSE [status |-> "ok",
          calculated_risk_level |-> 500,
          harm_value |-> 500,
          impact |-> 500,
          environmental_factor |-> One,
          risk_category |-> "Medium Risk",
          risk_level |-> "Medium",
          priority |-> "Medium",
          risk_score |-> 500,
          risk_index |-> x.v,
          methodology |-> "Fallback Risk Analysis"]

\* calculate_risk_level(risk_index)
calculate_risk_level(x) ==
    IF FloatError(x) # None THEN AnalysisHandler(x)
    ELSE Analysis(Clamp01(x.v))

\* calculate_risk_mitigation_priority with the limits 0.75, 0.5 and 0.25 of
\* the 0-1 scale
calculate_risk_mitigation_priority_Unit(risk_analysis) ==
    LET risk_score == risk_analysis.risk_score
    IN  IF risk_score >= 750
        THEN [priority |-> "Immediate", timeframe |-> "Within 24 hours"]
        ELSE IF risk_score >= 500
        THEN [priority |-> "High", timeframe |-> "Within 1 week"]
        ELSE IF risk_score >= 250
        THEN [priority |-> "Medium", timeframe |-> "Within 1 month"]
        ELSE [priority |-> "Low", timeframe |-> "Within 3 months"]

\* calculate_risk_mitigation_priority(risk_analysis): the limits are 7.5,
\* 5.0 and 2.5
calculate_risk_mitigation_priority(risk_analysis) ==
    LET risk_score == risk_analysis.risk_score
    IN  IF risk_score >= 7500
        THEN [priority |-> "Immediate", timeframe |-> "Within 24 hours"]
        ELSE IF risk_score >= 5000
        THEN [priority |-> "High", timeframe |-> "Within 1 week"]
        ELSE IF risk_score >= 2500
        THEN [priority |-> "Medium", timeframe |-> "Within 1 month"]
        ELSE [priority |-> "Low", timeframe |-> "Within 3 months"]

(***************************************************************************)
(* Specification of the analyzer: one call of calculate_risk_level, and    *)
(* one of calculate_risk_mitigation_priority on the record it returned,    *)
(* whose answer is kept in response.                                       *)
(***************************************************************************)
\* sampled numbers: from one step below 0 to one step above 1
RiskVals == {k * RiskStep : k \in -1 .. (One \div RiskStep) + 1}

\* sampled numbers whose level lies less than half a thousandth above a
\* limit of a band (0.25 and 0.5)
BandEdges == {519, 694}

InitAnalyzer ==
    /\ \E x \in {Num(v) : v \in RiskVals \cup BandEdges} \cup {NoneArg, TextArg} :
          call = [op |-> "calculate_risk_level", args |-> <<x>>]
    /\ result = Pending
    /\ asset = None
    /\ response = None

CalculateRiskLevel ==
    /\ call.op = "calculate_risk_level"
    /\ result = Pending
    /\ result' = calculate_risk_level(call.args[1])
    /\ UNCHANGED <<call, asset, response>>

CalculateRiskMitigationPriority ==
    /\ call.op = "calculate_risk_level"
    /\ result.status = "ok"
    /\ response = None
    /\ response' = calculate_risk_mitigation_priority(result)
    /\ UNCHANGED <<call, result, asset>>

NextAnalyzer == CalculateRiskLevel \/ CalculateRiskMitigationPriority

SpecAnalyzer == InitAnalyzer /\ [][NextAnalyzer]_vars

(***************************************************************************)
(* C6: calculate_risk_level never propagates an exception; when a step of  *)
(* it raises (here the conversion of a None or non-numeric argument) it    *)
(* returns the fallback record with calculated_risk_level = 0.5 and        *)
(* risk_category = "Medium Risk".                                          *)
(***************************************************************************)
C6_NeverPropagates ==
    Done("calculate_risk_level") =>
        /\ result.status = "ok"
        /\ call.args[1].kind # "num" =>
              /\ result.calculated_risk_level = 500
              /\ result.risk_category = "Medium Risk"

(***************************************************************************)
(* model_comparison.py: compare_all_approaches and batch_comparison        *)
(***************************************************************************)
Labels == {"Public", "Official", "Confidential", "Restricted"}

\* Counter(predictions).most_common(1)[0][0] with the last of the most
\* frequent labels instead of the first
MostCommon_Last(p) ==
    LET cnt(x) == Cardinality({n \in DOMAIN p : p[n] = x})
        best == CHOOSE n \in DOMAIN p :
                    /\ \A k \in DOMAIN p : cnt(p[k]) <= cnt(p[n])
                    /\ \A k \in DOMAIN p : k > n => cnt(p[k]) < cnt(p[n])
    IN  p[best]

\* Counter(predictions).most_common(1)[0][0]: the labels are counted in the
\* order of their first occurrence and the first of the most frequent wins
MostCommon(p) ==
    LET cnt(x) == Cardinality({n \in DOMAIN p : p[n] = x})
        best == CHOOSE n \in DOMAIN p :
                    /\ \A k \in DOMAIN p : cnt(p[k]) <= cnt(p[n])
                    /\ \A k \in DOMAIN p : k < n => cnt(p[k]) < cnt(p[n])
    IN  p[best]

\* _calculate_classification_score(prediction)
_calculate_classification_score(prediction) ==
    CASE prediction = "Public" -> 125
      [] prediction = "Official" -> 375
      [] prediction = "Confidential" -> 625
      [] prediction = "Restricted" -> 875
      [] OTHER -> 500

\* the dict returned by compare_all_approaches for the fuzzy result fz and
\* the labels predicted by the SVM and the decision tree
Comparison(args, fz, svm, dt) ==
    [status |-> "ok",
     input_features |-> args,
     predictions |-> <<fz.classification_category, svm, dt>>,
     classification_scores |-> <<fz.classification_score,
                                 _calculate_classification_score(svm),
                                 _calculate_classification_score(dt)>>,
     consensus |-> MostCommon(<<fz.classification_category, svm, dt>>)]

\* a fit or predict of scikit-learn that raised
Failed == "raise"

\* the three try blocks with an SVM failure swallowed: the comparison is
\* returned with 'Error' in place of the missing prediction
CompareStages_Partial(args, fz, svm, dt) ==
    IF fz.status = "raise" THEN Raised("ValueError", "fuzzy")
    ELSE IF svm = Failed THEN Comparison(args, fz, "Error", dt)
    ELSE IF dt = Failed THEN Raised("ValueError", "dt")
    ELSE Comparison(args, fz, svm, dt)

\* The three try blocks of compare_all_approaches in their order, for the
\* outcome fz of classify_asset_fuzzy and the outcomes svm and dt of the two
\* scikit-learn models (a label or Failed): each except clause raises
\* ValueError, which the outer except clause raises again as ValueError.
CompareStages(args, fz, svm, dt) ==
    IF fz.status = "raise" THEN Raised("ValueError", "fuzzy")
    ELSE IF svm = Failed THEN Raised("ValueError", "svm")
    ELSE IF dt = Failed THEN Raised("ValueError", "dt")
    ELSE Comparison(args, fz, svm, dt)

\* every outcome of compare_all_approaches(*args): a failure of the fuzzy
\* classifier is raised again as ValueError by both except clauses; the two
\* models, fitted on the 24 fixed samples, predict a label for the features
\* the fuzzy classifier has accepted
compare_all_approaches(args) ==
    {CompareStages(args, fz, svm, dt) :
     fz \in classify_asset_fuzzy(args), svm \in Labels, dt \in Labels}

\* one pass of the body of the for loop of batch_comparison on an item
BatchItemOutcomes(test_data) ==
    IF Len(test_data) >= 7 THEN compare_all_approaches(SubSeq(test_data, 1, 7))
    ELSE {Raised("ValueError", "length")}

\* the loop with every result inserted at the head of individual_results
RECURSIVE BatchLoop_Reversed(_)
BatchLoop_Reversed(items) ==
    IF items = <<>> THEN {[failed |-> FALSE, individual_results |-> <<>>]}
    ELSE LET before == BatchLoop_Reversed(SubSeq(items, 1, Len(items) - 1))
         IN  {run \in before : run.failed}
             \cup {IF r.status = "raise"
                     THEN [failed |-> TRUE, individual_results |-> run.individual_results]
                     ELSE [failed |-> FALSE,
                           individual_results |-> <<r>> \o run.individual_results] :
                   run \in {x \in before : ~x.failed},
                   r \in BatchItemOutcomes(items[Len(items)])}

\* The runs of the for loop over a list: individual_results when the loop
\* ends, and whether it ended by an exception (no item is visited after one
\* that raised).
RECURSIVE BatchLoop(_)
BatchLoop(items) ==
    IF items = <<>> THEN {[failed |-> FALSE, individual_results |-> <<>>]}
    ELSE LET before == BatchLoop(SubSeq(items, 1, Len(items) - 1))
         IN  {run \in before : run.failed}
             \cup {IF r.status = "raise"
                     THEN [failed |-> TRUE, individual_results |-> run.individual_results]
                     ELSE [failed |-> FALSE,
                           individual_results |-> Append(run.individual_results, r)] :
                   run \in {x \in before : ~x.failed},
                   r \in BatchItemOutcomes(items[Len(items)])}

\* every outcome of batch_comparison(test_data_list)
batch_comparison(test_data_list) ==
    {IF run.failed
       THEN [status |-> "ok",
             error |-> Some("Batch comparison failed"),
             individual_results |-> <<>>,
             performance_metrics |-> None]
       ELSE [status |-> "ok",
             error |-> None,
             individual_results |-> run.individual_results,
             performance_metrics |->
                Some([total_assets |-> Len(test_data_list),
                      successful_comparisons |-> Len(run.individual_results),
                      success_rate |-> IF test_data_list = <<>> THEN 0
                                       ELSE (One * Len(run.individual_results))
                                               \div Len(test_data_list)])] :
     run \in BatchLoop(test_data_list)}

(***************************************************************************)
(* Specification of the comparison: one call of compare_all_approaches.    *)
(***************************************************************************)
\* the sampled arguments of a comparison: none above 1
InitCompare ==
    /\ \E x \in [1 .. 7 -> {v \in InputVals : v <= One}] :
          call = [op |-> "compare_all_approaches", args |-> x]
    /\ result = Pending
    /\ asset = None
    /\ response = None

CompareAllApproaches ==
    /\ call.op = "compare_all_approaches"
    /\ result = Pending
    /\ result' \in compare_all_approaches(call.args)
    /\ UNCHANGED <<call, asset, response>>

NextCompare == CompareAllApproaches

SpecCompare == InitCompare /\ [][NextCompare]_vars

(***************************************************************************)
(* Specification of the batch comparison: one call of batch_comparison on  *)
(* a list of at most MaxBatch items.                                       *)
(***************************************************************************)
\* sampled batch items: tuples of 6, 7 or 8 equal values
BatchItems == {[n \in 1 .. len |-> v] : len \in {6, 7, 8}, v \in {-GridStep, 0, One}}

RECURSIVE BatchLists(_)
BatchLists(n) ==
    IF n = 0 THEN {<<>>}
    ELSE BatchLists(n - 1)
         \cup {Append(l, x) : l \in {y \in BatchLists(n - 1) : Len(y) = n - 1},
                              x \in BatchItems}

InitBatch ==
    /\ \E l \in BatchLists(MaxBatch) : call = [op |-> "batch_comparison", args |-> <<l>>]
    /\ result = Pending
    /\ asset = None
    /\ response = None

BatchComparison ==
    /\ call.op = "batch_comparison"
    /\ result = Pending
    /\ result' \in batch_comparison(call.args[1])
    /\ UNCHANGED <<call, asset, response>>

NextBatch == BatchComparison

SpecBatch == InitBatch /\ [][NextBatch]_vars

\* the item's comparison succeeds: it has 7 values on which
\* compare_all_approaches returns
Comparable(item) ==
    /\ Len(item) >= 7
    /\ \A r \in compare_all_approaches(SubSeq(item, 1, 7)) : r.status = "ok"

(***************************************************************************)
(* C8: when compare_all_approaches fails for some items of the list given  *)
(* to batch_comparison, the comparisons of all the other items are still   *)
(* returned in individual_results.                                         *)
(***************************************************************************)
C8_BatchTolerates ==
    Done("batch_comparison") =>
        LET items == call.args[1]
        IN  Len(result.individual_results)
              = Cardinality({n \in DOMAIN items : Comparable(items[n])})

(***************************************************************************)
(* C10: the consensus of compare_all_approaches is the most frequent label *)
(* among (fuzzy, SVM, decision tree): a label predicted at least twice     *)
(* wins, and when all three differ the consensus is the fuzzy prediction.  *)
(***************************************************************************)
C10_Consensus ==
    (Done("compare_all_approaches") /\ result.status = "ok") =>
        LET fz == result.predictions[1]
            svm == result.predictions[2]
            dt == result.predictions[3]
        IN  /\ (fz = svm \/ fz = dt) => result.consensus = fz
            /\ (svm = dt) => result.consensus = svm
            /\ (fz # svm /\ fz # dt /\ svm # dt) => result.consensus = fz

\* three different predictions, resolved to the fuzzy one
C10_Witness ==
    /\ Done("compare_all_approaches")
    /\ result.status = "ok"
    /\ Cardinality({result.predictions[n] : n \in 1 .. 3}) = 3
    /\ result.consensus = result.predictions[1]

(***************************************************************************)
(* risk_identification.py: the three methodologies and their integration.  *)
(* Scores are thousandths; round(x, 3) is RoundDiv on the exact value.     *)
(***************************************************************************)

\* STANDARD_THREATS T001 .. T006: likelihood and the impacts on C, I and A
STANDARD_THREATS ==
    << [likelihood |-> 600, c |-> 800, i |-> 300, a |-> 200],
       [likelihood |-> 400, c |-> 900, i |-> 700, a |-> 300],
       [likelihood |-> 300, c |-> 100, i |-> 600, a |-> 900],
       [likelihood |-> 700, c |-> 600, i |-> 800, a |-> 700],
       [likelihood |-> 200, c |-> 800, i |-> 700, a |-> 400],
       [likelihood |-> 100, c |-> 200, i |-> 300, a |-> 900] >>

RECURSIVE SumOver(_, _)
\* sum of f[n] over n in 1 .. k of a sequence of numbers
SumOver(f, k) == IF k = 0 THEN 0 ELSE f[k] + SumOver(f, k - 1)

\* risk_index of _calculate_event_based_metrics(threats): the mean of the
\* three average impacts, rounded
_calculate_event_based_metrics(threats) ==
    IF threats = <<>> THEN 0
    ELSE LET n == Len(threats)
             total == SumOver([k \in 1 .. n |->
                                 threats[k].c + threats[k].i + threats[k].a], n)
         IN  RoundDiv(total, 3 * n)

\* the risk_index values of hybrid_identification: 0.6 of the asset-based
\* index (compute_risk_level) plus 0.4 of the event-based one; the context
\* built by standardize_asset_context has no industry_sector, so that every
\* standard threat is selected
hybrid_identification(c, i, a, classification_value) ==
    {RoundDiv(600 * r.value + 400 * _calculate_event_based_metrics(STANDARD_THREATS),
              1000) :
     r \in compute_risk_level(c, i, a, classification_value)}

\* criticality level of standardize_asset_context(asset_data)
Criticality(business_criticality) ==
    IF business_criticality >= 800 THEN "critical"
    ELSE IF business_criticality >= 600 THEN "high"
    ELSE IF business_criticality >= 400 THEN "moderate"
    ELSE "low"

\* likelihoods of the threats of _identify_relevant_threats: the three
\* adversarial sources (base 0.7, 0.3, 0.2 times 1.3) for a high or critical
\* asset, then the environmental source
_identify_relevant_threats(criticality) ==
    IF criticality \in {"high", "critical"}
    THEN << Min2((700 * 13) \div 10, One), Min2((300 * 13) \div 10, One),
            Min2((200 * 13) \div 10, One), 200 >>
    ELSE << 200 >>

\* number of vulnerabilities of severity "high" found by
\* _identify_nist_vulnerabilities
HighSeverityVulns(c, i, a) == Cardinality({n \in 1 .. 3 : <<c, i, a>>[n] < 400})

\* _calculate_nist_likelihood(threats, vulnerabilities)
_calculate_nist_likelihood(criticality, c, i, a) ==
    LET threats == _identify_relevant_threats(criticality)
        total == SumOver(threats, Len(threats))
    IN  Min2(RoundDiv(total * (100 + 15 * HighSeverityVulns(c, i, a)),
                      100 * Len(threats)), One)

\* _calculate_nist_impact(asset_context)
_calculate_nist_impact(criticality, c, i, a) ==
    LET weight == CASE criticality = "low" -> 8
                    [] criticality = "moderate" -> 10
                    [] criticality = "high" -> 12
                    [] criticality = "critical" -> 14
    IN  Min2(RoundDiv((c + i + a) * weight, 30), One)

\* _calculate_nist_risk with every level one band too low
_calculate_nist_risk_Lenient(likelihood, impact) ==
    LET risk_score == likelihood * impact
        risk_level == IF risk_score >= 640000 THEN "High"
                      ELSE IF risk_score >= 360000 THEN "Moderate"
                      ELSE IF risk_score >= 160000 THEN "Low"
                      ELSE "Very Low"
    IN  {[risk_score |-> rounded, risk_level |-> risk_level,
          likelihood_component |-> likelihood, impact_component |-> impact] :
         rounded \in RoundTies(risk_score, 1000)}

\* every outcome of _calculate_nist_risk(assessment) for a likelihood and an
\* impact in thousandths: their product, in millionths, is compared with the
\* levels and then rounded (for operands of three decimals the float product
\* is on the same side of each level as the exact one)
_calculate_nist_risk(likelihood, impact) ==
    LET risk_score == likelihood * impact
        risk_level == IF risk_score >= 640000 THEN "Very High"
                      ELSE IF risk_score >= 360000 THEN "High"
                      ELSE IF risk_score >= 160000 THEN "Moderate"
                      ELSE IF risk_score >= 40000 THEN "Low"
                      ELSE "Very Low"
    IN  {[risk_score |-> rounded, risk_level |-> risk_level,
          likelihood_component |-> likelihood, impact_component |-> impact] :
         rounded \in RoundTies(risk_score, 1000)}

\* the values of risk_score of NISTRiskIdentification.assess_risk
NistRisk(criticality, c, i, a) ==
    {r.risk_score :
     r \in _calculate_nist_risk(_calculate_nist_likelihood(criticality, c, i, a),
                                _calculate_nist_impact(criticality, c, i, a))}

\* _assess_business_impact(asset_context)
_assess_business_impact(criticality) ==
    CASE criticality = "low" -> 300
      [] criticality = "moderate" -> 500
      [] criticality = "high" -> 800
      [] criticality = "critical" -> 1000
      [] OTHER -> 500

\* number of entries of _identify_technical_vulnerabilities(asset_context):
\* one for each CIA score below 0.5
_identify_technical_vulnerabilities(c, i, a) ==
    Cardinality({n \in 1 .. 3 : <<c, i, a>>[n] < 500})

\* _analyze_octave_risk with 0.4 for each technical vulnerability
_analyze_octave_risk_Steep(criticality, c, i, a) ==
    LET likelihood == Min2(400 * _identify_technical_vulnerabilities(c, i, a), One)
        impact == _assess_business_impact(criticality)
        risk_score == likelihood * impact
    IN  [risk_score |-> RoundDiv(risk_score, 1000),
         risk_level |-> IF risk_score >= 700000 THEN "High"
                        ELSE IF risk_score >= 400000 THEN "Moderate"
                        ELSE "Low",
         likelihood |-> likelihood, impact |-> impact]

\* _analyze_octave_risk(org_analysis, tech_analysis) for the business impact
\* and the technical vulnerabilities of the asset context: the product of
\* likelihood and impact, in millionths, is compared with the levels
_analyze_octave_risk(criticality, c, i, a) ==
    LET likelihood == Min2(200 * _identify_technical_vulnerabilities(c, i, a), One)
        impact == _assess_business_impact(criticality)
        risk_score == likelihood * impact
    IN  [risk_score |-> RoundDiv(risk_score, 1000),
         risk_level |-> IF risk_score >= 700000 THEN "High"
                        ELSE IF risk_score >= 400000 THEN "Moderate"
                        ELSE "Low",
         likelihood |-> likelihood, impact |-> impact]

\* risk_score of _analyze_octave_risk: 0.2 for each technical vulnerability
\* (a CIA score below 0.5) times the business impact
OctaveRisk(criticality, c, i, a) == _analyze_octave_risk(criticality, c, i, a).risk_score

\* the methodologies comprehensive_assessment runs; RiskMethodology.INTEGRATED
\* selects none of them
Methodologies == {"iso_27005", "nist_sp_800_30", "octave"}

\* weights of _integrate_results, in hundredths
MethodWeight(m) ==
    CASE m = "iso_27005" -> 40
      [] m = "nist_sp_800_30" -> 35
      [] m = "octave" -> 25

\* risk levels of the integrated risk total / weight, which is compared
\* before it is rounded: on a threshold the float falls on either side
IntegratedLevel(total, weight) ==
    LET names == <<"Very High", "High", "Moderate", "Low", "Very Low">>
        thresholds == <<800, 600, 400, 200>>
        rank == Cardinality({n \in 1 .. 4 : total < thresholds[n] * weight})
    IN  {names[rank + 1]}
          \cup {names[rank + 2] : n \in {k \in 1 .. 4 : total = thresholds[k] * weight}}

\* _integrate_results without the division by the total weight
_integrate_results_Raw(results) ==
    LET term(m) == IF m \in DOMAIN results THEN MethodWeight(m) * results[m] ELSE 0
        weighted_risk == term("iso_27005") + term("nist_sp_800_30") + term("octave")
    IN  IF DOMAIN results = {}
        THEN {[risk_score |-> 500, risk_level |-> "Moderate", methodologies |-> {}]}
        ELSE {[risk_score |-> score, risk_level |-> level,
               methodologies |-> DOMAIN results] :
              score \in RoundTies(weighted_risk, 100),
              level \in IntegratedLevel(weighted_risk, 100)}

\* every outcome of _integrate_results(asset_id, results, asset_context) for
\* the risk scores results[m] of the methodologies that ran: their weighted
\* mean, or the basic assessment 0.5 when none ran
_integrate_results(results) ==
    LET term(m) == IF m \in DOMAIN results THEN MethodWeight(m) * results[m] ELSE 0
        weight(m) == IF m \in DOMAIN results THEN MethodWeight(m) ELSE 0
        total_weight == weight("iso_27005") + weight("nist_sp_800_30") + weight("octave")
        weighted_risk == term("iso_27005") + term("nist_sp_800_30") + term("octave")
    IN  IF DOMAIN results = {}
        THEN {[risk_score |-> 500, risk_level |-> "Moderate", methodologies |-> {}]}
        ELSE {[risk_score |-> score, risk_level |-> level,
               methodologies |-> DOMAIN results] :
              score \in RoundTies(weighted_risk, total_weight),
              level \in IntegratedLevel(weighted_risk, total_weight)}

\* the values of the dict results of comprehensive_assessment: the risk
\* score of each methodology of methodologies_to_use, where asset_context
\* holds the CIA scores, the classification value and the criticality
IndividualAssessments(methodologies_to_use, c, i, a, classification_value, criticality) ==
    LET iso == IF "iso_27005" \in methodologies_to_use
               THEN hybrid_identification(c, i, a, classification_value)
               ELSE {0}
        nist == IF "nist_sp_800_30" \in methodologies_to_use
                THEN NistRisk(criticality, c, i, a)
                ELSE {0}
    IN  {[m \in methodologies_to_use \cap Methodologies |->
             CASE m = "iso_27005" -> iso_score
               [] m = "nist_sp_800_30" -> nist_score
               [] m = "octave" -> OctaveRisk(criticality, c, i, a)] :
         iso_score \in iso, nist_score \in nist}

\* every outcome of comprehensive_assessment(asset_id, asset_context,
\* methodologies_to_use): the integrated assessment of the individual ones
comprehensive_assessment(methodologies_to_use, c, i, a, classification_value, criticality) ==
    UNION {_integrate_results(results) :
           results \in IndividualAssessments(methodologies_to_use, c, i, a,
                                             classification_value, criticality)}

(***************************************************************************)
(* classification.py: the ensemble of the fuzzy classifier and the trained *)
(* models found in ml_models.  What a trained model predicts is not in the *)
(* source: a model is a label with a confidence.                           *)
(***************************************************************************)

\* at most MaxModels trained models are present
MaxModels == 2

\* confidences of a trained model (0.5 is the default of
\* _get_ml_predictions when the model has no predict_proba)
Confidences == {500, 1000}

\* the labels a trained model can predict: those of the classes its label
\* encoder was fitted on, which are the four categories or, as here for one
\* more, whatever the training data held
PredictedLabels == Labels \cup {"Other"}

\* the results of _get_ml_predictions(feature_vector, models_dir)
MlResults ==
    UNION {[1 .. n -> [category : PredictedLabels, confidence : Confidences]] :
           n \in 0 .. MaxModels}

\* the vote with the last of the categories of highest weight elected
_ensemble_voting_Last(predictions, confidences) ==
    IF predictions = <<>> THEN "Official"
    ELSE LET n == Len(predictions)
             vote(x) == SumOver([k \in 1 .. n |->
                                   IF predictions[k] = x THEN confidences[k] ELSE 0], n)
             best == CHOOSE k \in 1 .. n :
                        /\ \A j \in 1 .. n : vote(predictions[j]) <= vote(predictions[k])
                        /\ \A j \in k + 1 .. n :
                              vote(predictions[j]) < vote(predictions[k])
         IN  predictions[best]

\* ensemble_category of _ensemble_voting(predictions, confidences): the
\* votes are weighted by confidence, and of the categories with the highest
\* weight the one predicted first wins (max over the keys of a dict)
_ensemble_voting(predictions, confidences) ==
    IF predictions = <<>> THEN "Official"
    ELSE LET n == Len(predictions)
             vote(x) == SumOver([k \in 1 .. n |->
                                   IF predictions[k] = x THEN confidences[k] ELSE 0], n)
             best == CHOOSE k \in 1 .. n :
                        /\ \A j \in 1 .. n : vote(predictions[j]) <= vote(predictions[k])
                        /\ \A j \in 1 .. k - 1 :
                              vote(predictions[j]) < vote(predictions[k])
         IN  predictions[best]

\* category_to_score.get(category, default) of classify_asset_ensemble
category_to_score(category, default) ==
    CASE category = "Public" -> 125
      [] category = "Official" -> 375
      [] category = "Confidential" -> 625
      [] category = "Restricted" -> 875
      [] OTHER -> default

\* ensemble_category for each category of the fuzzy classifier: its vote of
\* confidence 1.0 comes first, then the votes of the trained models, for
\* every result of _get_ml_predictions
EnsembleCategories ==
    [fuzzy_category \in Labels |->
        {_ensemble_voting(
             <<fuzzy_category>> \o [k \in 1 .. Len(ml_results) |-> ml_results[k].category],
             <<1000>> \o [k \in 1 .. Len(ml_results) |-> ml_results[k].confidence]) :
         ml_results \in MlResults}]

\* the dict returned by classify_asset_ensemble when the vote elects
\* ensemble_category; fuzzy_score is the score of the fuzzy classifier
EnsembleResult(ensemble_category, fuzzy_score) ==
    LET ensemble_score == category_to_score(ensemble_category, fuzzy_score)
    IN  [status |-> "ok",
         classification_score |-> ensemble_score,
         classification_category |-> ensemble_category,
         risk_level |-> IF ensemble_score <= 250 THEN "Low"
                        ELSE IF ensemble_score <= 500 THEN "Low-Medium"
                        ELSE IF ensemble_score <= 750 THEN "Medium-High"
                        ELSE "High",
         methodology |-> "Ensemble Classification"]

\* every outcome of classify_asset_ensemble(*args, use_ml_models=True): when
\* the fuzzy classifier raises there is no fuzzy_result to fall back on and
\* the except clause raises ValueError
classify_asset_ensemble(args) ==
    UNION {IF fuzzy_result.status = "raise" THEN {Raised("ValueError", "ensemble")}
           ELSE {EnsembleResult(ensemble_category, fuzzy_result.classification_score) :
                 ensemble_category \in
                     EnsembleCategories[fuzzy_result.classification_category]} :
           fuzzy_result \in classify_asset_fuzzy(args)}

(***************************************************************************)
(* views.py: the endpoints of AssetListingViewSet on one asset.            *)
(*                                                                         *)
(* The endpoints read and write business_criticality, data_sensitivity,    *)
(* operational_dependency and regulatory_impact as attributes of the       *)
(* asset, which the AssetListing of models.py does not declare.  The asset *)
(* of the model says whether its class declares them: where it does not,   *)
(* reading one raises AttributeError, as the code does under models.py.    *)
(***************************************************************************)

\* an AssetListing as created: the phases have written nothing yet
AssetListing(declared, params, cia) ==
    [declared |-> declared,
     business_criticality |-> params[1],
     data_sensitivity |-> params[2],
     operational_dependency |-> params[3],
     regulatory_impact |-> params[4],
     confidentiality |-> cia[1],
     integrity |-> cia[2],
     availability |-> cia[3],
     classification_value |-> None,
     risk_index |-> None,
     calculated_risk_level |-> None,
     harm_value |-> None,
     mathematical_risk_category |-> None,
     traditional_fuzzy_prediction |-> None,
     modern_svm_prediction |-> None,
     modern_dt_prediction |-> None]

\* x or default, for a number or None x
OrDefault(x, default) == IF x = None \/ x = Some(0) THEN default ELSE Val(x)

\* Response(data, status=...): the status and the error of the body
Response(status, error) == [status |-> status, error |-> error]

\* the result of a request that returned before it called its utility
NotRun == [status |-> "not run"]

\* what a request did: the asset it leaves, its response, and the result of
\* the utility it called
Outcome(a, resp, res) == [asset |-> a, response |-> resp, result |-> res]

\* the body of classify_asset and of classify_asset_ensemble, which differ
\* in their messages only; data[k] = None stands for a request without key
\* k; the result of the classifier holds the inputs it was called with
ClassifyOutcomes(a, data) ==
    IF ~a.declared
    THEN {Outcome(a, Response(400, Some("AttributeError")), NotRun)}
    ELSE
    LET get(k, attr) == IF data[k] # None THEN data[k] ELSE attr
        asset_importance == get("asset_importance", a.operational_dependency)
        data_value == get("data_value", a.data_sensitivity)
        business_criticality == get("business_criticality", a.business_criticality)
        replaceability == get("replaceability", a.regulatory_impact)
        null_params == {n \in 1 .. 4 :
                          <<asset_importance, data_value, business_criticality,
                            replaceability>>[n] = None}
        inputs == << OrDefault(asset_importance, 300), OrDefault(data_value, 400),
                     OrDefault(business_criticality, 500), OrDefault(replaceability, 400) >>
        args == << inputs[3], inputs[2], inputs[1], inputs[4],
                   OrDefault(a.confidentiality, 500), OrDefault(a.integrity, 500),
                   OrDefault(a.availability, 500) >>
    IN  IF Cardinality(null_params) >= 3
        THEN {Outcome(a, Response(400, Some("Insufficient classification parameters")),
                      NotRun)}
        ELSE IF \E n \in 1 .. 4 : ~(0 <= inputs[n] /\ inputs[n] <= One)
        THEN {Outcome(a, Response(400, Some("must be a number between 0.0 and 1.0")),
                      NotRun)}
        ELSE {IF r.status = "raise"
                THEN Outcome(a, Response(400, Some(r.error)), r)
                ELSE Outcome([a EXCEPT !.classification_value = Some(r.classification_score),
                                       !.business_criticality = Some(inputs[3]),
                                       !.data_sensitivity = Some(inputs[2]),
                                       !.operational_dependency = Some(inputs[1]),
                                       !.regulatory_impact = Some(inputs[4])],
                             Response(200, None), r @@ [inputs |-> args]) :
              r \in classify_asset_ensemble(args)}

\* the CIA scores of a request are floats in [0, 1]
ValidCia(cia) == \A n \in 1 .. 3 : cia[n] # None /\ 0 <= Val(cia[n]) /\ Val(cia[n]) <= One

\* RiskIdentificationResponseSerializer, RiskAnalysisResponseSerializer and
\* ModelComparisonResponseSerializer declare required fields (likelihood,
\* consequence, confidence_scores, ...) that the response_data of their
\* endpoint does not hold: .data raises KeyError after asset.save(), and the
\* except clause of the endpoint answers 400
SerializerKeyError == Response(400, Some("KeyError"))

\* identify_risk(request): data = <<confidentiality, integrity, availability>>
IdentifyRiskOutcomes(a, data) ==
    IF ~ValidCia(data)
    THEN {Outcome(a, Response(400, Some("serializer.errors")), NotRun)}
    ELSE IF a.classification_value = None
    THEN {Outcome(a, Response(400, Some("Asset must be classified first (Phase 1)")),
                  NotRun)}
    ELSE {Outcome([a EXCEPT !.confidentiality = data[1],
                            !.integrity = data[2],
                            !.availability = data[3],
                            !.risk_index = Some(r.value)],
                  SerializerKeyError, r) :
          r \in compute_risk_level(Val(data[1]), Val(data[2]), Val(data[3]),
                                   Val(a.classification_value))}

\* identify_risk_enhanced(request): data = <<confidentiality, integrity,
\* availability>>, each None when the request has no such key, and
\* include_methodologies, None when the request does not name them
IdentifyRiskEnhancedOutcomes(a, data, include_methodologies) ==
    LET cia == [n \in 1 .. 3 |-> IF data[n] = None THEN Some(500) ELSE data[n]]
        methodologies_to_use == IF include_methodologies = None THEN Methodologies
                                ELSE Val(include_methodologies) \cap Methodologies
    IN  IF ~ValidCia(cia)
        THEN {Outcome(a, Response(400, Some("CIA scores must be between 0.0 and 1.0")),
                      NotRun)}
        ELSE IF ~a.declared
        THEN {Outcome(a, Response(500, Some("AttributeError")), NotRun)}
        ELSE {Outcome([a EXCEPT !.confidentiality = cia[1],
                                !.integrity = cia[2],
                                !.availability = cia[3],
                                !.risk_index = Some(r.risk_score)],
                      Response(200, None), r) :
              r \in comprehensive_assessment(
                        methodologies_to_use, Val(cia[1]), Val(cia[2]), Val(cia[3]),
                        OrDefault(a.classification_value, 500),
                        Criticality(OrDefault(a.business_criticality, 500)))}

\* analyze_risk with the test "if not asset.risk_index"
AnalyzeRiskOutcomes_Falsy(a) ==
    IF a.risk_index = None \/ a.risk_index = Some(0)
    THEN {Outcome(a, Response(400, Some("Asset must have risk identification completed first (Phase 2)")),
                  NotRun)}
    ELSE LET risk_analysis == calculate_risk_level(Num(Val(a.risk_index)))
         IN  {Outcome([a EXCEPT !.calculated_risk_level =
                                    Some(risk_analysis.calculated_risk_level),
                                !.harm_value = Some(risk_analysis.harm_value),
                                !.mathematical_risk_category =
                                    Some(risk_analysis.risk_category)],
                      SerializerKeyError, risk_analysis)}

\* analyze_risk(request)
AnalyzeRiskOutcomes(a) ==
    IF a.risk_index = None
    THEN {Outcome(a, Response(400, Some("Asset must have risk identification completed first (Phase 2)")),
                  NotRun)}
    ELSE LET risk_analysis == calculate_risk_level(Num(Val(a.risk_index)))
         IN  {Outcome([a EXCEPT !.calculated_risk_level =
                                    Some(risk_analysis.calculated_risk_level),
                                !.harm_value = Some(risk_analysis.harm_value),
                                !.mathematical_risk_category =
                                    Some(risk_analysis.risk_category)],
                      SerializerKeyError, risk_analysis)}

\* validate_asset_id of ModelComparisonRequestSerializer and the check of
\* each asset by BatchComparisonRequestSerializer
ComparisonReady(a) ==
    /\ a.confidentiality # None
    /\ a.integrity # None
    /\ a.availability # None
    /\ a.classification_value # None

\* the seven features compare_models and batch_compare read from the asset
ComparisonFeatures(a) ==
    << OrDefault(a.business_criticality, 500), OrDefault(a.data_sensitivity, 500),
       OrDefault(a.operational_dependency, 500), OrDefault(a.regulatory_impact, 500),
       OrDefault(a.confidentiality, 500), OrDefault(a.integrity, 500),
       OrDefault(a.availability, 500) >>

\* the risk category stored for a consensus prediction
ConsensusRiskCategory(consensus_prediction) ==
    IF consensus_prediction = "Low" THEN "Low Risk"
    ELSE IF consensus_prediction \in {"Moderate", "Medium"} THEN "Medium Risk"
    ELSE IF consensus_prediction = "High" THEN "High Risk"
    ELSE "Medium Risk"

\* the fields both comparison endpoints write from a comparison result
StoreComparison(a, comparison) ==
    [a EXCEPT !.traditional_fuzzy_prediction = Some(comparison.predictions[1]),
              !.modern_svm_prediction = Some(comparison.predictions[2]),
              !.modern_dt_prediction = Some(comparison.predictions[3]),
              !.mathematical_risk_category =
                  Some(ConsensusRiskCategory(comparison.consensus))]

\* compare_models(request)
CompareModelsOutcomes(a) ==
    IF ~ComparisonReady(a)
    THEN {Outcome(a, Response(400, Some("serializer.errors")), NotRun)}
    ELSE IF ~a.declared
    THEN {Outcome(a, Response(400, Some("AttributeError")), NotRun)}
    ELSE {IF r.status = "raise"
            THEN Outcome(a, Response(400, Some(r.error)), r)
            ELSE Outcome(StoreComparison(a, r), SerializerKeyError, r) :
          r \in compare_all_approaches(ComparisonFeatures(a))}

\* batch_compare(request) with asset_ids naming the asset: a batch that
\* failed has no individual_results and indexing it raises IndexError
BatchCompareOutcomes(a) ==
    IF ~ComparisonReady(a)
    THEN {Outcome(a, Response(400, Some("serializer.errors")), NotRun)}
    ELSE IF ~a.declared
    THEN {Outcome(a, Response(400, Some("AttributeError")), NotRun)}
    ELSE {IF r.individual_results = <<>>
            THEN Outcome(a, Response(400, Some("IndexError")), r)
            ELSE Outcome(StoreComparison(a, r.individual_results[1]),
                         Response(200, None), r) :
          r \in batch_comparison(<<ComparisonFeatures(a)>>)}

(***************************************************************************)
(* Specification of the API: the sequences of at most MaxCalls endpoint    *)
(* calls on one asset.  A request gives one value to the three CIA scores  *)
(* and one to the four classification parameters.                          *)
(***************************************************************************)
MaxCalls == 4

\* a classification parameter of a request: no such key, then 0, 0.6, 1.5
ParamVals == {None, Some(0), Some(600), Some(1500)}

\* a CIA score of a request: no such key, then 0.3, 1.5
CiaVals == {None, Some(300), Some(1500)}

ClassifyKeys == {"asset_importance", "data_value", "business_criticality", "replaceability"}

\* the bodies of the classification requests
ClassifyData == {[k \in ClassifyKeys |-> v] : v \in ParamVals}

\* include_methodologies of a request: not given, or a list of names
IncludeVals == {None, Some({"integrated"}), Some({"octave"})}

\* an asset created through the API: AssetListingCreateSerializer takes no
\* field of a phase, and the CIA scores are left out of the request
InitApi ==
    /\ call = [op |-> "none", n |-> 0]
    /\ result = Pending
    /\ response = None
    /\ \E declared \in BOOLEAN :
          asset = AssetListing(declared, <<None, None, None, None>>, <<None, None, None>>)

\* Each endpoint answers one request: the asset is saved as the outcome
\* says, and call records the request and how many were made.
ClassifyAsset ==
    /\ call.n < MaxCalls
    /\ \E data \in ClassifyData :
       \E o \in ClassifyOutcomes(asset, data) :
          /\ call' = [op |-> "classify_asset", data |-> data, n |-> call.n + 1]
          /\ asset' = o.asset
          /\ response' = o.response
          /\ result' = o.result

ClassifyAssetEnsemble ==
    /\ call.n < MaxCalls
    /\ \E data \in ClassifyData :
       \E o \in ClassifyOutcomes(asset, data) :
          /\ call' = [op |-> "classify_asset_ensemble", data |-> data, n |-> call.n + 1]
          /\ asset' = o.asset
          /\ response' = o.response
          /\ result' = o.result

IdentifyRisk ==
    /\ call.n < MaxCalls
    /\ \E v \in CiaVals :
       \E o \in IdentifyRiskOutcomes(asset, <<v, v, v>>) :
          /\ call' = [op |-> "identify_risk", data |-> <<v, v, v>>, n |-> call.n + 1]
          /\ asset' = o.asset
          /\ response' = o.response
          /\ result' = o.result

IdentifyRiskEnhanced ==
    /\ call.n < MaxCalls
    /\ \E v \in CiaVals, include \in IncludeVals :
       \E o \in IdentifyRiskEnhancedOutcomes(asset, <<v, v, v>>, include) :
          /\ call' = [op |-> "identify_risk_enhanced", data |-> <<v, v, v, include>>, n |-> call.n + 1]
          /\ asset' = o.asset
          /\ response' = o.response
          /\ result' = o.result

AnalyzeRisk ==
    /\ call.n < MaxCalls
    /\ \E o \in AnalyzeRiskOutcomes(asset) :
          /\ call' = [op |-> "analyze_risk", data |-> <<>>, n |-> call.n + 1]
          /\ asset' = o.asset
          /\ response' = o.response
          /\ result' = o.result

CompareModels ==
    /\ call.n < MaxCalls
    /\ \E o \in CompareModelsOutcomes(asset) :
          /\ call' = [op |-> "compare_models", data |-> <<>>, n |-> call.n + 1]
          /\ asset' = o.asset
          /\ response' = o.response
          /\ result' = o.result

BatchCompare ==
    /\ call.n < MaxCalls
    /\ \E o \in BatchCompareOutcomes(asset) :
          /\ call' = [op |-> "batch_compare", data |-> <<>>, n |-> call.n + 1]
          /\ asset' = o.asset
          /\ response' = o.response
          /\ result' = o.result

NextApi ==
    \/ ClassifyAsset
    \/ ClassifyAssetEnsemble
    \/ IdentifyRisk
    \/ IdentifyRiskEnhanced
    \/ AnalyzeRisk
    \/ CompareModels
    \/ BatchCompare

SpecApi == InitApi /\ [][NextApi]_vars

SklearnOutcomes == {"Public", "Restricted", Failed}

InitFaulty ==
    /\ \E x \in [1 .. 7 -> {v \in InputVals : v <= One}] :
       \E svm \in SklearnOutcomes, dt \in SklearnOutcomes :
          call = [op |-> "compare_all_approaches", args |-> x, svm |-> svm, dt |-> dt]
    /\ result = Pending
    /\ asset = None
    /\ response = None

CompareAllApproachesFaulty ==
    /\ call.op = "compare_all_approaches"
    /\ result = Pending
    /\ \E fz \in classify_asset_fuzzy(call.args) :
          result' = CompareStages(call.args, fz, call.svm, call.dt)
    /\ UNCHANGED <<call, asset, response>>

NextFaulty == CompareAllApproachesFaulty

SpecFaulty == InitFaulty /\ [][NextFaulty]_vars

\* the fuzzy classifier raises on the arguments of the call
FuzzyFails == \E fz \in classify_asset_fuzzy(call.args) : fz.status = "raise"

(***************************************************************************)
(* C11: when one of the three sub-classifiers (fuzzy, SVM, decision tree)  *)
(* fails inside compare_all_approaches the call raises and returns no      *)
(* comparison, not even a partial one; when none fails it returns the      *)
(* comparison with all three predictions.                                  *)
(***************************************************************************)
C11_AllOrNothing ==
    Done("compare_all_approaches") =>
        IF FuzzyFails \/ call.svm = Failed \/ call.dt = Failed
        THEN result.status = "raise" /\ result.error = "ValueError"
        ELSE /\ result.status = "ok"
             /\ result.predictions[2] = call.svm
             /\ result.predictions[3] = call.dt
             /\ result.predictions[1] \in Labels

\* the fuzzy classifier and the decision tree succeeded, the SVM failed,
\* and the call raised
C11_Witness ==
    /\ Done("compare_all_approaches")
    /\ ~FuzzyFails
    /\ call.svm = Failed
    /\ call.dt \in Labels
    /\ result.status = "raise"

(***************************************************************************)
(* Specification of paired calls of compute_risk_level: the call on the    *)
(* sampled arguments and the call with one of confidentiality, integrity,  *)
(* availability (argument 1, 2 or 3) raised to a higher sampled value.     *)
(***************************************************************************)
\* sampled arguments of compute_risk_level inside [0,1]
UnitSamples == {0, 200, 500, 800, One}

InitPair ==
    /\ \E x \in [1 .. 4 -> UnitSamples], n \in 1 .. 3, v \in UnitSamples :
          /\ v > x[n]
          /\ call = [op |-> "compute_risk_level", args |-> x,
                     raised |-> [x EXCEPT ![n] = v]]
    /\ result = Pending
    /\ asset = None
    /\ response = None

ComputeRiskLevelPair ==
    /\ call.op = "compute_risk_level"
    /\ result = Pending
    /\ \E lower \in compute_risk_level(call.args[1], call.args[2],
                                        call.args[3], call.args[4]),
          higher \in compute_risk_level(call.raised[1], call.raised[2],
                                         call.raised[3], call.raised[4]) :
          result' = [status |-> "ok", lower |-> lower, higher |-> higher]
    /\ UNCHANGED <<call, asset, response>>

NextPair == ComputeRiskLevelPair

SpecPair == InitPair /\ [][NextPair]_vars

(***************************************************************************)
(* C12: raising one of confidentiality, integrity, availability inside     *)
(* [0,1] while the other three arguments of compute_risk_level stay fixed  *)
(* never lowers the returned risk index.                                   *)
(***************************************************************************)
C12_Monotone ==
    Done("compute_risk_level") => result.lower.value <= result.higher.value

(***************************************************************************)
(* C13 as claimed: compute_risk_level(0.3, 0.4, 0.3, 0.2) returns a risk   *)
(* index below 0.3.                                                        *)
(***************************************************************************)
C13_Scenario2Low ==
    (Done("compute_risk_level") /\ call.args = Scenario2) => result.value < 300

(***************************************************************************)
(* C13 amended: compute_risk_level(0.3, 0.4, 0.3, 0.2) returns 0.5 from    *)
(* the fuzzy path: only the medium consequent fires, no low-risk rule does.*)
(***************************************************************************)
C13_Scenario2Medium ==
    (Done("compute_risk_level") /\ call.args = Scenario2) =>
        /\ result = Returned(500, "fuzzy")
        /\ CrlActivation(300, 400, 300, 200) = [low |-> 0, medium |-> 400, high |-> 0]

\* scenario 2 has been computed
C13_Witness ==
    /\ Done("compute_risk_level")
    /\ call.args = Scenario2
    /\ result.status = "ok"
    /\ result.value >= 300

\* the arguments of the call of compute_risk_level, each clamped to [0,1]
Clamped == [n \in 1 .. 4 |-> Clamp01(call.args[n])]

\* no rule of compute_risk_level fires on the clamped arguments, so that
\* compute() raises
InferenceFails ==
    LET act == CrlActivation(Clamped[1], Clamped[2], Clamped[3], Clamped[4])
    IN  act.low = 0 /\ act.medium = 0 /\ act.high = 0

(***************************************************************************)
(* C14: compute_risk_level never raises on numbers; when the fuzzy         *)
(* inference fails it returns the average of the four arguments, each      *)
(* clamped to [0,1] and weighted 0.25, rounded to 3 decimals (so within    *)
(* half a thousandth of the exact average).                                *)
(***************************************************************************)
C14_EqualWeightFallback ==
    Done("compute_risk_level") =>
        /\ result.status = "ok"
        /\ InferenceFails =>
              LET total == Clamped[1] + Clamped[2] + Clamped[3] + Clamped[4]
              IN  /\ result.path = "fallback"
                  /\ 4 * result.value - total <= 2
                  /\ total - 4 * result.value <= 2

\* the fallback answered a call with an argument outside [0,1] and with an
\* availability that differs from the classification value
C14_Witness ==
    /\ Done("compute_risk_level")
    /\ SomeOutOfRange
    /\ InferenceFails
    /\ result.path = "fallback"
    /\ Clamped[3] # Clamped[4]

(***************************************************************************)
(* C15: compute_risk_level clamps instead of rejecting: on any numbers it  *)
(* returns what it returns on the arguments clamped to [0,1], through the  *)
(* fuzzy path and through the fallback alike, and the result is in [0,1].  *)
(***************************************************************************)
C15_ClampsArguments ==
    Done("compute_risk_level") =>
        /\ result \in compute_risk_level(Clamped[1], Clamped[2], Clamped[3], Clamped[4])
        /\ 0 <= result.value
        /\ result.value <= One

\* a call with confidentiality above 1 and integrity below 0 was answered
C15_Witness ==
    /\ Done("compute_risk_level")
    /\ call.args[1] > One
    /\ call.args[2] < 0
    /\ result.status = "ok"

\* calculate_risk_level was called with a number and has finished
AnalyzedNumber == Done("calculate_risk_level") /\ call.args[1].kind = "num"

(***************************************************************************)
(* C16: for every number given as risk_index, inside [0,1] or not,         *)
(* calculate_risk_level returns calculated_risk_level and harm_value in    *)
(* [0,1], and for risk_index 0 the impact and calculated_risk_level are 0. *)
(***************************************************************************)
C16_AnalyzerRange ==
    AnalyzedNumber =>
        /\ result.status = "ok"
        /\ 0 <= result.calculated_risk_level /\ result.calculated_risk_level <= One
        /\ 0 <= result.harm_value /\ result.harm_value <= One
        /\ call.args[1].v = 0 =>
              /\ result.impact = 0
              /\ result.harm_value = 0
              /\ result.calculated_risk_level = 0

\* the impact of a risk_index below 1 was capped at 1.0
C16_Witness ==
    /\ AnalyzedNumber
    /\ call.args[1].v < One
    /\ result.harm_value = One

(***************************************************************************)
(* C17 as claimed: with the returned calculated_risk_level, risk_category  *)
(* is "Low Risk" iff level <= 0.25, "Medium Risk" iff 0.25 < level <= 0.5, *)
(* "High Risk" iff 0.5 < level <= 0.75 and "Very High Risk" otherwise; the *)
(* top band has risk_level "Critical" and "Critical Risk" is not returned. *)
(***************************************************************************)
C17_BandsOfReturnedLevel ==
    AnalyzedNumber =>
        LET level == result.calculated_risk_level
        IN  /\ result.risk_category = "Low Risk" <=> level <= 250
            /\ result.risk_category = "Medium Risk" <=> (250 < level /\ level <= 500)
            /\ result.risk_category = "High Risk" <=> (500 < level /\ level <= 750)
            /\ result.risk_category = "Very High Risk" <=> 750 < level
            /\ result.risk_category = "Very High Risk" <=> result.risk_level = "Critical"

(***************************************************************************)
(* C17 amended: the band is decided before the level is rounded, so a      *)
(* returned calculated_risk_level below 0.25 has "Low Risk", one strictly  *)
(* between 0.25 and 0.5 "Medium Risk", one strictly between 0.5 and 0.75   *)
(* "High Risk", one above 0.75 "Very High Risk", and one equal to a limit  *)
(* has the category of the band below or of the band above it; the         *)
(* category is "<risk_level> Risk" except for risk_level "Critical", which *)
(* gives "Very High Risk".                                                 *)
(***************************************************************************)
C17_BandsBeforeRounding ==
    AnalyzedNumber =>
        LET level == result.calculated_risk_level
            category == result.risk_category
        IN  /\ level < 250 => category = "Low Risk"
            /\ level = 250 => category \in {"Low Risk", "Medium Risk"}
            /\ (250 < level /\ level < 500) => category = "Medium Risk"
            /\ level = 500 => category \in {"Medium Risk", "High Risk"}
            /\ (500 < level /\ level < 750) => category = "High Risk"
            /\ level = 750 => category \in {"High Risk", "Very High Risk"}
            /\ level > 750 => category = "Very High Risk"
            /\ category = "Low Risk" <=> result.risk_level = "Low"
            /\ category = "Medium Risk" <=> result.risk_level = "Medium"
            /\ category = "High Risk" <=> result.risk_level = "High"
            /\ category = "Very High Risk" <=> result.risk_level = "Critical"

\* a returned level of exactly 0.25 in the band "Medium Risk"
C17_Witness ==
    /\ AnalyzedNumber
    /\ result.calculated_risk_level = 250
    /\ result.risk_category = "Medium Risk"

(***************************************************************************)
(* C18: calculate_risk_level(1.0) computes impact 1.0, environmental       *)
(* factor 1.15 and calculated_risk_level 1.0 and returns the category      *)
(* "Very High Risk".                                                       *)
(***************************************************************************)
C18_Scenario3 ==
    (AnalyzedNumber /\ call.args[1].v = One) =>
        /\ result.impact = One
        /\ result.environmental_factor = 1150
        /\ result.calculated_risk_level = One
        /\ result.risk_category = "Very High Risk"

\* scenario 3 has been computed and returned the top band
C18_Witness ==
    /\ AnalyzedNumber
    /\ call.args[1].v = One
    /\ result.risk_level = "Critical"

(***************************************************************************)
(* Specification of the ensemble classifier on a models directory: one     *)
(* call of classify_asset_ensemble with its models_dir, the directory      *)
(* missing or holding at most MaxModels .pkl files.                        *)
(***************************************************************************)
\* a .pkl file: one whose load or predict raises, or one whose model
\* predicts a category with a confidence
ModelFiles ==
    {[status |-> "raise"]}
      \cup {[status |-> "ok", category |-> c, confidence |-> w] :
             c \in PredictedLabels, w \in Confidences}

\* the loop over the files with no try inside it: the first file that
\* raises ends the listing
_get_ml_predictions_Abort(models_dir) ==
    IF models_dir = None THEN <<>>
    ELSE LET files == Val(models_dir)
             bad == {k \in 1 .. Len(files) : files[k].status = "raise"}
             stop == IF bad = {} THEN Len(files)
                     ELSE (CHOOSE k \in bad : \A j \in bad : k <= j) - 1
         IN  [k \in 1 .. stop |->
                [category |-> files[k].category, confidence |-> files[k].confidence]]

\* _get_ml_predictions(feature_vector, models_dir): nothing for a missing
\* directory, else the result of every file that loads and predicts, in the
\* order of the listing; a file that raises is skipped
_get_ml_predictions(models_dir) ==
    IF models_dir = None THEN <<>>
    ELSE LET loaded == SelectSeq(Val(models_dir), LAMBDA f : f.status = "ok")
         IN  [k \in 1 .. Len(loaded) |->
                [category |-> loaded[k].category, confidence |-> loaded[k].confidence]]

\* the dict returned by classify_asset_ensemble for the result of the fuzzy
\* classifier and the results of the trained models, with the votes
\* (individual_predictions, the fuzzy one first) and their number
EnsembleRun(fuzzy_result, ml_results) ==
    LET votes == <<[category |-> fuzzy_result.classification_category,
                    confidence |-> 1000]>> \o ml_results
        ensemble_category ==
            _ensemble_voting([k \in 1 .. Len(votes) |-> votes[k].category],
                             [k \in 1 .. Len(votes) |-> votes[k].confidence])
    IN  EnsembleResult(ensemble_category, fuzzy_result.classification_score)
          @@ [individual_predictions |-> votes, total_models |-> Len(votes)]

InitEnsemble ==
    /\ \E v \in InputVals :
       \E models_dir \in {None} \cup {Some(files) : files \in
                              UNION {[1 .. n -> ModelFiles] : n \in 0 .. MaxModels}} :
          call = [op |-> "classify_asset_ensemble", args |-> [n \in 1 .. 7 |-> v],
                  models_dir |-> models_dir]
    /\ result = Pending
    /\ asset = None
    /\ response = None

EnsembleCall ==
    /\ call.op = "classify_asset_ensemble"
    /\ result = Pending
    /\ \E fuzzy_result \in classify_asset_fuzzy(call.args) :
          result' = IF fuzzy_result.status = "raise"
                      THEN Raised("ValueError", "ensemble")
                      ELSE EnsembleRun(fuzzy_result, _get_ml_predictions(call.models_dir))
    /\ UNCHANGED <<call, asset, response>>

NextEnsemble == EnsembleCall

SpecEnsemble == InitEnsemble /\ [][NextEnsemble]_vars

\* the files of the call's directory that load and predict
GoodFiles ==
    IF call.models_dir = None THEN {}
    ELSE {k \in DOMAIN Val(call.models_dir) : Val(call.models_dir)[k].status = "ok"}

(***************************************************************************)
(* C19: a model file that fails to load or to predict never aborts the     *)
(* ensemble: classify_asset_ensemble returns a result whenever the fuzzy   *)
(* classification succeeds; the fuzzy classifier and exactly the files     *)
(* that load and predict vote; with a missing directory, or with no such   *)
(* file, the fuzzy vote alone decides.                                     *)
(***************************************************************************)
C19_BadFilesSkipped ==
    Done("classify_asset_ensemble") =>
        /\ result.status = "raise" <=> FuzzyFails
        /\ result.status = "ok" =>
              /\ result.total_models = 1 + Cardinality(GoodFiles)
              /\ \A k \in GoodFiles :
                    \E n \in 2 .. result.total_models :
                       result.individual_predictions[n].category
                         = Val(call.models_dir)[k].category
              /\ GoodFiles = {} =>
                    result.classification_category
                      = result.individual_predictions[1].category

\* a file that raises was followed by a file that voted
C19_Witness ==
    /\ Done("classify_asset_ensemble")
    /\ result.status = "ok"
    /\ call.models_dir # None
    /\ Len(Val(call.models_dir)) = 2
    /\ Val(call.models_dir)[1].status = "raise"
    /\ result.total_models = 2

\* the categories and the confidences of the votes of the returned result
VotedCategories ==
    [k \in 1 .. result.total_models |-> result.individual_predictions[k].category]
VotedConfidences ==
    [k \in 1 .. result.total_models |-> result.individual_predictions[k].confidence]

(***************************************************************************)
(* C20 as claimed: the category elected by _ensemble_voting is the most    *)
(* frequent label of the list of predictions (fuzzy first), ties by        *)
(* encounter order, whatever the confidences of the trained models.        *)
(***************************************************************************)
C20_SameAsConsensus ==
    (Done("classify_asset_ensemble") /\ result.status = "ok") =>
        result.classification_category = MostCommon(VotedCategories)

(***************************************************************************)
(* C20 amended: _ensemble_voting elects the category whose votes have the  *)
(* largest sum of confidences (the fuzzy vote weighs 1.0), the first such  *)
(* category in the order of the list when sums are equal; it is the most   *)
(* frequent label of the list, ties by encounter order, when all the       *)
(* confidences are equal.                                                  *)
(***************************************************************************)
C20_WeightedVote ==
    (Done("classify_asset_ensemble") /\ result.status = "ok") =>
        LET n == result.total_models
            weight(x) == SumOver([k \in 1 .. n |->
                                    IF VotedCategories[k] = x
                                      THEN VotedConfidences[k] ELSE 0], n)
            elected == result.classification_category
        IN  /\ \E k \in 1 .. n :
                  /\ VotedCategories[k] = elected
                  /\ \A j \in 1 .. n : weight(VotedCategories[j]) <= weight(elected)
                  /\ \A j \in 1 .. k - 1 : weight(VotedCategories[j]) < weight(elected)
            /\ (\A k \in 1 .. n : VotedConfidences[k] = 1000)
                  => elected = MostCommon(VotedCategories)

\* three votes of confidence 1.0 for three different categories, the fuzzy
\* one elected
C20_Witness ==
    /\ Done("classify_asset_ensemble")
    /\ result.status = "ok"
    /\ result.total_models = 3
    /\ \A k \in 1 .. 3 : VotedConfidences[k] = 1000
    /\ Cardinality({VotedCategories[k] : k \in 1 .. 3}) = 3
    /\ result.classification_category = VotedCategories[1]

(***************************************************************************)
(* C21: when batch_comparison returns without an error, individual_results *)
(* has the length of test_data_list and its i-th entry is the comparison   *)
(* of the i-th item: its input_features are the first seven values of the  *)
(* item.                                                                   *)
(***************************************************************************)
C21_BatchOrder ==
    (Done("batch_comparison") /\ result.error = None) =>
        LET items == call.args[1]
        IN  /\ Len(result.individual_results) = Len(items)
            /\ \A n \in DOMAIN items :
                  result.individual_results[n].input_features = SubSeq(items[n], 1, 7)

\* two different items, the first of eight values, were both compared
C21_Witness ==
    /\ Done("batch_comparison")
    /\ result.error = None
    /\ Len(call.args[1]) = 2
    /\ Len(call.args[1][1]) = 8
    /\ call.args[1][1][1] # call.args[1][2][1]
    /\ Len(result.individual_results) = 2

(***************************************************************************)
(* risk_identification.py called directly: one call of                     *)
(* comprehensive_assessment, of _calculate_nist_risk or of the OCTAVE      *)
(* assess_risk, on sampled asset contexts.                                 *)
(***************************************************************************)

\* CIA scores on both sides of the vulnerability limits 0.4 and 0.5
CiaSamples == {300, 450, 800}

\* likelihoods and impacts whose products lie on, below and above the levels
NistSamples == {0, 199, 200, 400, 599, 600, 799, 800, One}

\* the criticality levels of standardize_asset_context, and one that the
\* maps of the methodologies do not hold
CriticalityLevels == {"low", "moderate", "high", "critical"}

InitRisk ==
    /\ \/ \E methodologies_to_use \in SUBSET Methodologies,
              cia \in [1 .. 3 -> CiaSamples], classification_value \in {200, 700},
              criticality \in CriticalityLevels :
              call = [op |-> "comprehensive_assessment",
                      args |-> <<methodologies_to_use, cia[1], cia[2], cia[3],
                                 classification_value, criticality>>]
       \/ \E likelihood \in NistSamples, impact \in NistSamples :
              call = [op |-> "_calculate_nist_risk", args |-> <<likelihood, impact>>]
       \/ \E cia \in [1 .. 3 -> CiaSamples],
              criticality \in CriticalityLevels \cup {"unknown"} :
              call = [op |-> "octave.assess_risk",
                      args |-> <<criticality, cia[1], cia[2], cia[3]>>]
    /\ result = Pending
    /\ asset = None
    /\ response = None

ComprehensiveAssessment ==
    /\ call.op = "comprehensive_assessment"
    /\ result = Pending
    /\ \E results \in IndividualAssessments(call.args[1], call.args[2], call.args[3],
                                             call.args[4], call.args[5], call.args[6]) :
          \E integrated \in _integrate_results(results) :
             result' = [status |-> "ok", individual_assessments |-> results,
                        integrated_assessment |-> integrated]
    /\ UNCHANGED <<call, asset, response>>

CalculateNistRisk ==
    /\ call.op = "_calculate_nist_risk"
    /\ result = Pending
    /\ \E r \in _calculate_nist_risk(call.args[1], call.args[2]) :
          result' = [status |-> "ok"] @@ r
    /\ UNCHANGED <<call, asset, response>>

OctaveAssessRisk ==
    /\ call.op = "octave.assess_risk"
    /\ result = Pending
    /\ result' = [status |-> "ok"]
                    @@ _analyze_octave_risk(call.args[1], call.args[2],
                                            call.args[3], call.args[4])
    /\ UNCHANGED <<call, asset, response>>

NextRisk == ComprehensiveAssessment \/ CalculateNistRisk \/ OctaveAssessRisk

SpecRisk == InitRisk /\ [][NextRisk]_vars

\* smallest and largest value of a non-empty set of numbers
SetMin(S) == CHOOSE x \in S : \A y \in S : x <= y
SetMax(S) == CHOOSE x \in S : \A y \in S : x >= y

\* C22: when ISO 27005, NIST SP 800-30 and OCTAVE all ran, the integrated
\* risk_score is 0.4 ISO + 0.35 NIST + 0.25 OCTAVE rounded to 3 decimals;
\* when a subset ran, it is the sum weighted likewise divided by the sum of
\* the weights of that subset, and it lies between the smallest and the
\* largest individual risk score.
C22_IntegratedWeights ==
    (Done("comprehensive_assessment") /\ DOMAIN result.individual_assessments # {}) =>
        LET results == result.individual_assessments
            risk_score == result.integrated_assessment.risk_score
            ran == DOMAIN results
            score(m) == IF m \in ran THEN results[m] ELSE 0
            share(m, w) == IF m \in ran THEN w ELSE 0
            total == 40 * score("iso_27005") + 35 * score("nist_sp_800_30")
                       + 25 * score("octave")
            weights == share("iso_27005", 40) + share("nist_sp_800_30", 35)
                         + share("octave", 25)
        IN  /\ ran = Methodologies => risk_score \in RoundTies(total, 100)
            /\ risk_score \in RoundTies(total, weights)
            /\ risk_score >= SetMin({results[m] : m \in ran})
            /\ risk_score <= SetMax({results[m] : m \in ran})

\* NIST and OCTAVE alone ran, and the integrated score is strictly between
\* theirs
C22_Witness ==
    /\ Done("comprehensive_assessment")
    /\ LET results == result.individual_assessments
           risk_score == result.integrated_assessment.risk_score
       IN  /\ DOMAIN results = {"nist_sp_800_30", "octave"}
           /\ results["octave"] < risk_score
           /\ risk_score < results["nist_sp_800_30"]

\* C23: _calculate_nist_risk assigns exactly one level to likelihood x
\* impact: Very High iff it is >= 0.64, High iff in [0.36, 0.64), Moderate
\* iff in [0.16, 0.36), Low iff in [0.04, 0.16), Very Low iff below 0.04.
C23_NistBands ==
    Done("_calculate_nist_risk") =>
        LET risk == call.args[1] * call.args[2]
            level == result.risk_level
        IN  /\ level \in {"Very High", "High", "Moderate", "Low", "Very Low"}
            /\ level = "Very High" <=> risk >= 640000
            /\ level = "High" <=> (360000 <= risk /\ risk < 640000)
            /\ level = "Moderate" <=> (160000 <= risk /\ risk < 360000)
            /\ level = "Low" <=> (40000 <= risk /\ risk < 160000)
            /\ level = "Very Low" <=> risk < 40000

\* a product exactly on the level 0.36 is High
C23_Witness ==
    /\ Done("_calculate_nist_risk")
    /\ call.args[1] * call.args[2] = 360000
    /\ result.risk_level = "High"

\* C29: the OCTAVE likelihood is 0.2 times the number of technical
\* vulnerabilities, at most 0.6, the impact is at most 1.0, the risk_score
\* is at most 0.6 and the risk_level is Low or Moderate, never High.
C29_OctaveNeverHigh ==
    Done("octave.assess_risk") =>
        /\ \E n \in 0 .. 3 : result.likelihood = 200 * n
        /\ result.likelihood
             = 200 * Cardinality({n \in 2 .. 4 : call.args[n] < 500})
        /\ result.impact <= One
        /\ result.risk_score <= 600
        /\ result.risk_level \in {"Low", "Moderate"}

\* three technical vulnerabilities of a critical asset: the largest score
C29_Witness ==
    /\ Done("octave.assess_risk")
    /\ result.likelihood = 600
    /\ result.impact = One
    /\ result.risk_score = 600
    /\ result.risk_level = "Moderate"

\* C24 as stated: the returned classification_category is the band of the
\* returned classification_score, the value rounded to 3 decimals (<= 0.25
\* Public, <= 0.50 Official, <= 0.75 Confidential, else Restricted).
C24_BandOfReturnedScore ==
    (Done("classify_asset_fuzzy") /\ result.status = "ok") =>
        result.classification_category
          = (IF result.classification_score <= 250 THEN "Public"
             ELSE IF result.classification_score <= 500 THEN "Official"
             ELSE IF result.classification_score <= 750 THEN "Confidential"
             ELSE "Restricted")

\* C24 amended: the category is the band of the score before it is rounded,
\* which is within half a thousandth of the returned score: a returned score
\* strictly inside a band has the category of that band, and a returned
\* score equal to a limit has the category below or the category above it.
C24_BandBeforeRounding ==
    (Done("classify_asset_fuzzy") /\ result.status = "ok") =>
        LET score == result.classification_score
            cat == result.classification_category
        IN  /\ 10000 * score - 5000 <= result.final_score
            /\ result.final_score <= 10000 * score + 5000
            /\ score < 250 => cat = "Public"
            /\ score = 250 => cat \in {"Public", "Official"}
            /\ (250 < score /\ score < 500) => cat = "Official"
            /\ score = 500 => cat \in {"Official", "Confidential"}
            /\ (500 < score /\ score < 750) => cat = "Confidential"
            /\ score = 750 => cat \in {"Confidential", "Restricted"}
            /\ score > 750 => cat = "Restricted"

\* a score just above 0.5, Confidential, is returned as 0.5
C24_Witness ==
    /\ Done("classify_asset_fuzzy")
    /\ result.status = "ok"
    /\ result.final_score > 5000 * One
    /\ result.classification_score = 500
    /\ result.classification_category = "Confidential"

\* the threshold band of a score: <= 0.25 Public, <= 0.50 Official,
\* <= 0.75 Confidential, else Restricted
BandOf(score) ==
    IF score <= 250 THEN "Public"
    ELSE IF score <= 500 THEN "Official"
    ELSE IF score <= 750 THEN "Confidential"
    ELSE "Restricted"

\* C25: whatever the loaded models predict, the result of
\* classify_asset_ensemble has one of the four categories and a score in
\* the band of that category; when no model contributes, the category is
\* that of the fuzzy classifier and the score is its midpoint.
C25_EnsembleClosure ==
    (Done("classify_asset_ensemble") /\ result.status = "ok") =>
        /\ result.classification_category \in Labels
        /\ BandOf(result.classification_score) = result.classification_category
        /\ result.total_models = 1 =>
              /\ result.classification_category
                   = result.individual_predictions[1].category
              /\ result.classification_score
                   \in {125, 375, 625, 875}

\* the field of the asset that a classification parameter defaults to and
\* is saved in, and the place of the parameter among the classifier's inputs
ParamField ==
    [asset_importance |-> "operational_dependency", data_value |-> "data_sensitivity",
     business_criticality |-> "business_criticality", replaceability |-> "regulatory_impact"]
ParamPlace ==
    [asset_importance |-> 3, data_value |-> 2, business_criticality |-> 1, replaceability |-> 4]
ParamDefault ==
    [asset_importance |-> 300, data_value |-> 400, business_criticality |-> 500,
     replaceability |-> 400]

ModelNames == {"svm", "decision_tree"}

\* y_true and y_pred of add_model_results: one or two labels
LabelLists == UNION {[1 .. n -> {0, 1}] : n \in 1 .. 2}

\* round(accuracy_score(y_true, y_pred), 4), in units of 0.0001
accuracy_score(y_true, y_pred) ==
    RoundDiv(10000 * Cardinality({n \in DOMAIN y_true : y_true[n] = y_pred[n]}),
             Len(y_true))

\* the dict compare_models builds from self.models: the number of models,
\* their metrics, and the head of ranking['accuracy'], the first model of
\* the highest accuracy (the sort is stable, and the dict keeps the order
\* in which the names were first added)
FrameworkComparison(models, order) ==
    [model_count |-> Cardinality(DOMAIN models),
     models |-> models,
     top_accuracy |->
        LET first == CHOOSE k \in DOMAIN order :
                        /\ \A j \in DOMAIN order : models[order[j]] <= models[order[k]]
                        /\ \A j \in 1 .. k - 1 : models[order[j]] < models[order[k]]
        IN  order[first]]

InitFramework ==
    /\ asset = [models |-> None, order |-> <<>>, comparison_results |-> None]
    /\ call = NoCall
    /\ result = Pending
    /\ response = None

\* add_model_results(model_name, y_true, y_pred): confusion_matrix raises on
\* lists of different lengths, and the model is not stored
AddModelResults ==
    \E model_name \in ModelNames, y_true \in LabelLists, y_pred \in LabelLists :
       /\ call' = [op |-> "add_model_results", args |-> <<model_name, y_true, y_pred>>]
       /\ IF Len(y_true) # Len(y_pred)
          THEN /\ result' = [status |-> "ok", error |-> Some("ValueError")]
               /\ asset' = asset
          ELSE /\ result' = [status |-> "ok", error |-> None,
                             accuracy |-> accuracy_score(y_true, y_pred)]
               /\ asset' = [asset EXCEPT
                     !.models = (model_name :> accuracy_score(y_true, y_pred)) @@ @,
                     !.order = IF model_name \in DOMAIN asset.models THEN @
                               ELSE Append(@, model_name)]
       /\ UNCHANGED response

\* compare_models(): an error without models, else the comparison, which is
\* kept in comparison_results
FrameworkCompareModels ==
    /\ call' = [op |-> "compare_models"]
    /\ IF asset.models = None
       THEN /\ result' = [status |-> "ok", error |-> Some("No models added for comparison")]
            /\ asset' = asset
       ELSE /\ result' = [status |-> "ok", error |-> None,
                          value |-> FrameworkComparison(asset.models, asset.order)]
            /\ asset' = [asset EXCEPT
                  !.comparison_results = FrameworkComparison(asset.models, asset.order)]
    /\ UNCHANGED response

\* export_results(format): compare_models() is called when
\* comparison_results is empty, and comparison_results is returned, as a
\* JSON text or as the dict
ExportResults ==
    \E format \in {"json", "dict"} :
       LET comparison_results ==
               IF asset.comparison_results = None /\ asset.models # None
               THEN FrameworkComparison(asset.models, asset.order)
               ELSE asset.comparison_results
       IN  /\ call' = [op |-> "export_results", args |-> <<format>>]
           /\ asset' = [asset EXCEPT !.comparison_results = comparison_results]
           /\ result' = [status |-> "ok", error |-> None, format |-> format,
                         value |-> comparison_results]
           /\ UNCHANGED response

\* clear_models()
ClearModels ==
    /\ call' = [op |-> "clear_models"]
    /\ asset' = [models |-> None, order |-> <<>>, comparison_results |-> None]
    /\ result' = [status |-> "ok", error |-> None]
    /\ UNCHANGED response

NextFramework == AddModelResults \/ FrameworkCompareModels \/ ExportResults \/ ClearModels

SpecFramework == InitFramework /\ [][NextFramework]_vars

\* C28: after any sequence of add_model_results, compare_models,
\* export_results and clear_models, the comparison that export_results
\* returns covers exactly the models now stored: model_count is their
\* number, also for models added after an earlier comparison or export.
C28_ExportIsCurrent ==
    (call.op = "export_results" /\ asset.models # None) =>
        /\ result.value # None
        /\ result.value.model_count = Cardinality(DOMAIN asset.models)
        /\ result.value.models = asset.models

\* C30: calculate_risk_mitigation_priority applied to the record returned
\* by calculate_risk_level always returns priority "Low" with timeframe
\* "Within 3 months", whatever the risk_index and the risk_level.
C30_AlwaysLowPriority ==
    (call.op = "calculate_risk_level" /\ response # None) =>
        /\ result.risk_score <= One
        /\ response.priority = "Low"
        /\ response.timeframe = "Within 3 months"

\* the priority of a record whose risk_level is Critical
C30_Witness ==
    /\ call.op = "calculate_risk_level"
    /\ response # None
    /\ result.risk_level = "Critical"
    /\ result.risk_score = One
    /\ response.priority = "Low"
====
